---- MODULE Spec2Model ----
(***************************************************************************)
(* Dual spectrum-analyzer viewer (src/main.py, class DualSAViewer): the    *)
(* two instrument sessions, their single-sweep workers and continuous      *)
(* loops, the Tk event queue the workers post to, the instrument           *)
(* configuration, and the peak-hold aggregate.                             *)
(*                                                                         *)
(* Frequencies entered in the panel are in MHz; the model counts them in   *)
(* units of 1/20 MHz so that one decimal digit and span/2 are exact.       *)
(***************************************************************************)
EXTENDS Integers, Sequences, FiniteSets, TLC

\* ---------------------------------------------------------------- bounds
MaxThreads == 2
MaxHalt == 3
DualThreads == 1
MaxQueue == 1
MaxPoints == 1
MaxAmp == 0
PeakPoints == 2
PeakAmp == 1
DecodeLen == 3
MaxIter == 2

\* ------------------------------------------------------ program constants
TimeoutDefault == 120000
TimeoutCont == 30000
HzPerUnit == 50000

Sessions == {1, 2}
Other(s) == 3 - s

\* ------------------------------------------------- _get_freq_range_for_panel
Digits == <<"0", "1", "2", "3", "4", "5", "6", "7", "8", "9">>
IsDigit(c) == \E d \in 1..10 : Digits[d] = c
DigitVal(c) == (CHOOSE d \in 1..10 : Digits[d] = c) - 1

\* str.replace(",", ".")
ReplaceComma(txt) == [i \in 1..Len(txt) |-> IF txt[i] = "," THEN "." ELSE txt[i]]

RECURSIVE DigitsVal(_)
DigitsVal(ds) ==
  IF ds = <<>> THEN 0
  ELSE 10 * DigitsVal(SubSeq(ds, 1, Len(ds) - 1)) + DigitVal(ds[Len(ds)])

AllDigits(ds) == \A i \in 1..Len(ds) : IsDigit(ds[i])

\* float(text) on the modelled grammar [-]digits[.[digit]]: err is TRUE for a
\* ValueError, else val is the value in units of 1/20.
ParseFloat(txt) ==
  LET neg  == Len(txt) > 0 /\ txt[1] = "-"
      body == IF neg THEN SubSeq(txt, 2, Len(txt)) ELSE txt
      dots == {i \in 1..Len(body) : body[i] = "."}
      d    == IF dots = {} THEN Len(body) + 1 ELSE CHOOSE i \in dots : TRUE
      ip   == SubSeq(body, 1, d - 1)
      fp   == SubSeq(body, d + 1, Len(body))
      ok   == /\ Cardinality(dots) <= 1
              /\ ip # <<>> /\ AllDigits(ip)
              /\ Len(fp) <= 1 /\ AllDigits(fp)
      mag  == IF ok THEN 20 * DigitsVal(ip) + 2 * DigitsVal(fp) ELSE 0
  IN [err |-> ~ok, val |-> IF neg THEN 0 - mag ELSE mag]

\* A resolution that takes the whole span on each side of the center.
GetFreqRangeFullSpan(panel) ==
  LET a == ParseFloat(ReplaceComma(panel.f1))
      b == ParseFloat(ReplaceComma(panel.f2))
  IN IF a.err \/ b.err THEN [err |-> TRUE, start |-> 0, stop |-> 0]
     ELSE IF panel.freq_mode = "center_span"
          THEN [err |-> FALSE, start |-> a.val - b.val, stop |-> a.val + b.val]
          ELSE [err |-> FALSE, start |-> a.val, stop |-> b.val]

\* panel: [freq_mode, f1, f2], f1/f2 the two entry texts of the mode shown
\* (start/stop or center/span).  err is TRUE when float() raised.
GetFreqRange(panel) ==
  LET a == ParseFloat(ReplaceComma(panel.f1))
      b == ParseFloat(ReplaceComma(panel.f2))
  IN IF a.err \/ b.err THEN [err |-> TRUE, start |-> 0, stop |-> 0]
     ELSE IF panel.freq_mode = "center_span"
          THEN [err |-> FALSE, start |-> a.val - b.val \div 2,
                               stop  |-> a.val + b.val \div 2]
          ELSE [err |-> FALSE, start |-> a.val, stop |-> b.val]

\* ------------------------------------------------------------ _configure_sa
\* float(bw.replace('k', 'e3').replace('M', 'e6')) on the menu's values.
BwToHz(bw) ==
  LET last  == bw[Len(bw)]
      front == SubSeq(bw, 1, Len(bw) - 1)
  IN IF last = "k" THEN DigitsVal(front) * 1000
     ELSE IF last = "M" THEN DigitsVal(front) * 1000000
     ELSE DigitsVal(bw)

Cmd(c, a) == [cmd |-> c, arg |-> a]

\* A configuration that sets center and span before start and stop.
ConfigCommandsCenterFirst(cfg) ==
  LET start_hz == cfg.start * HzPerUnit
      stop_hz  == cfg.stop * HzPerUnit
  IN << IF cfg.bw_res = <<>> THEN Cmd(":BAND:RES:AUTO ON", 0)
                             ELSE Cmd(":BAND:RES", BwToHz(cfg.bw_res)),
        Cmd(":FREQ:CENT", (start_hz + stop_hz) \div 2),
        Cmd(":FREQ:SPAN", stop_hz - start_hz),
        Cmd(":FREQ:STAR", start_hz),
        Cmd(":FREQ:STOP", stop_hz),
        Cmd(":SWE:POIN", cfg.points),
        Cmd(":BAND:VID", BwToHz(cfg.bw_vid)),
        Cmd(":DET POS", 0),
        Cmd(":FORM:TRAC:DATA ASCii", 0) >>

\* The writes of _configure_sa in program order, for a range in units.
\* cfg: [start, stop, points, bw_res, bw_vid]; bw_res is <<>> for "auto".
ConfigCommands(cfg) ==
  LET start_hz == cfg.start * HzPerUnit
      stop_hz  == cfg.stop * HzPerUnit
  IN << IF cfg.bw_res = <<>> THEN Cmd(":BAND:RES:AUTO ON", 0)
                             ELSE Cmd(":BAND:RES", BwToHz(cfg.bw_res)),
        Cmd(":FREQ:STAR", start_hz),
        Cmd(":FREQ:STOP", stop_hz),
        Cmd(":FREQ:CENT", (start_hz + stop_hz) \div 2),
        Cmd(":FREQ:SPAN", stop_hz - start_hz),
        Cmd(":SWE:POIN", cfg.points),
        Cmd(":BAND:VID", BwToHz(cfg.bw_vid)),
        Cmd(":DET POS", 0),
        Cmd(":FORM:TRAC:DATA ASCii", 0) >>

\* The writes that reach the instrument when write number failAt raises
\* (0: none raises).  One try block holds them all, so the first failure
\* ends the configuration.
ConfigureSa(cmds, failAt) ==
  IF failAt = 0 THEN cmds ELSE SubSeq(cmds, 1, failAt - 1)

\* ------------------------------------------------------------- np.linspace
\* An axis that stops one step short of f_stop (endpoint=False).
LinspaceOpenEnd(f_start, f_stop, n) ==
  [i \in 1..n |->
     IF n = 1 THEN <<f_start, 1>>
     ELSE <<f_start * n + (i - 1) * (f_stop - f_start), n>>]

\* Entry i as the fraction <<numerator, denominator>> in Hz.
Linspace(f_start, f_stop, n) ==
  [i \in 1..n |->
     IF n = 1 THEN <<f_start, 1>>
     ELSE <<f_start * (n - 1) + (i - 1) * (f_stop - f_start), n - 1>>]

\* -------------------------------------------------------------- np.maximum
MaxOf(a, b) == IF a >= b THEN a ELSE b
\* A maximum that keeps what was held.
MaximumKeepsHeld(xs, ys) == xs

Maximum(xs, ys) == [i \in 1..Len(xs) |-> MaxOf(xs[i], ys[i])]

\* =================================================================== state
VARIABLES
  rm,          \* self.rm: TRUE when a ResourceManager is held
  inst,        \* self.inst1/2: "none" or "open"
  timeout,     \* inst.timeout of the held handle (0 without a handle)
  connected,   \* panel status indicator (set_connected)
  continuous,  \* self.continuous1/2
  contBtn,     \* panel continuous button shows "Stop" (set_continuous_active)
  sweepBtn,    \* panel sweep button disabled, "Sweeping..." (set_sweeping)
  max_vals,    \* self.max_vals1/2: <<>> for None, else <<array>>
  max_freqs,   \* self.max_freqs1/2: <<>> for None, else <<array>>
  threads,     \* worker threads each session started: do_continuous, do_sweep
  queue,       \* callbacks posted with self.after(0, ...), oldest first
  sa,          \* the instrument of each session: trigger mode, start, stop
  ui,          \* what the Tk main thread is doing
  fnIn,        \* argument of the function under check (function checks only)
  fnOut        \* its result

vars == <<rm, inst, timeout, connected, continuous, contBtn, sweepBtn,
          max_vals, max_freqs, threads, queue, sa, ui, fnIn, fnOut>>

Dead == [kind |-> "none", pc |-> "dead", orig |-> 0, halt |-> 0, cut |-> FALSE, late |-> FALSE]
Idle == [st |-> "idle", s |-> 0]

\* messagebox.showerror(title, error_str) of a failed connect: the handler of
\* session s waits in the modal box, which names what raised.
Causes == {"open_failed", "identify_failed"}
ErrorBox(cause, s) == [st |-> cause, s |-> s]

\* What the user may have typed in the panel's range fields.
PanelInputs ==
  { [freq_mode |-> "start_stop",  f1 |-> <<"0">>, f2 |-> <<"2">>],
    [freq_mode |-> "center_span", f1 |-> <<"1">>, f2 |-> <<"x">>] }

\* points_var, bw_res_var, bw_vid_var as constructed (SpectrumAnalyzerPanel).
PanelPoints == 3001
PanelBw == <<"1", "M">>

PanelConfig(r) ==
  [start |-> r.start, stop |-> r.stop, points |-> PanelPoints,
   bw_res |-> PanelBw, bw_vid |-> PanelBw]

\* Amplitude arrays the instrument may return for a trace.
TracesOf(maxLen, maxAmp) ==
  UNION { [1..n -> 0..maxAmp] : n \in 1..maxLen }
Traces == TracesOf(MaxPoints, MaxAmp)

\* DualSAViewer.__init__
Constructed ==
  /\ rm = FALSE
  /\ inst = [s \in Sessions |-> "none"]
  /\ timeout = [s \in Sessions |-> 0]
  /\ connected = [s \in Sessions |-> FALSE]
  /\ continuous = [s \in Sessions |-> FALSE]
  /\ contBtn = [s \in Sessions |-> FALSE]
  /\ sweepBtn = [s \in Sessions |-> FALSE]
  /\ max_vals = [s \in Sessions |-> <<>>]
  /\ max_freqs = [s \in Sessions |-> <<>>]
  /\ threads = [s \in Sessions |-> [i \in 1..MaxThreads |-> Dead]]
  /\ queue = <<>>
  /\ sa = [s \in Sessions |-> [cont |-> TRUE, start |-> 0, stop |-> 40 * HzPerUnit]]
  /\ ui = Idle

Init == Constructed /\ fnIn = <<>> /\ fnOut = <<>>

\* ------------------------------------------------------------ instrument
\* The instrument after one write reached it.
SaWrite(st, c) ==
  IF c.cmd = ":FREQ:STAR" THEN [st EXCEPT !.start = c.arg]
  ELSE IF c.cmd = ":FREQ:STOP" THEN [st EXCEPT !.stop = c.arg]
  ELSE IF c.cmd = ":INIT:CONT OFF" THEN [st EXCEPT !.cont = FALSE]
  ELSE st

RECURSIVE SaWrites(_, _)
SaWrites(st, cs) ==
  IF cs = <<>> THEN st ELSE SaWrites(SaWrite(st, Head(cs)), Tail(cs))

\* ------------------------------------------------------------- hand-offs
TraceEv(s, f, v) ==
  [k |-> "trace", s |-> s, on |-> FALSE, freqs |-> f, vals |-> v, stale |-> FALSE]
BusyEv(s, b) ==
  [k |-> "busy", s |-> s, on |-> b, freqs |-> <<>>, vals |-> <<>>, stale |-> FALSE]
ContEv(s) ==
  [k |-> "cont", s |-> s, on |-> FALSE, freqs |-> <<>>, vals |-> <<>>, stale |-> FALSE]

\* History kept for each pending trace hand-off: stale becomes true when its
\* session is disconnected or the network is reset while it waits.
Outdated(S, q) ==
  [j \in DOMAIN q |->
     IF q[j].k = "trace" /\ q[j].s \in S THEN [q[j] EXCEPT !.stale = TRUE] ELSE q[j]]

CanPost(n) == Len(queue) + n <= MaxQueue

\* ------------------------------------------------------------ _update_plot
\* An update that always replaces what is held.
PeakUpdateReplaces(held, freqs, vals) == [vals |-> <<vals>>, freqs |-> <<freqs>>]

\* An update that keeps what is held when the lengths differ.
PeakUpdateIgnoresMismatch(held, freqs, vals) ==
  IF held.vals = <<>> \/ held.freqs = <<>>
  THEN [vals |-> <<vals>>, freqs |-> <<freqs>>]
  ELSE IF Len(held.vals[1]) # Len(vals) THEN held
  ELSE [vals |-> <<Maximum(held.vals[1], vals)>>, freqs |-> held.freqs]

\* An update that takes the new amplitudes and keeps the held axis when the
\* lengths differ.
PeakUpdateKeepsAxis(held, freqs, vals) ==
  IF held.vals = <<>> \/ held.freqs = <<>>
  THEN [vals |-> <<vals>>, freqs |-> <<freqs>>]
  ELSE IF Len(held.vals[1]) # Len(vals) THEN [vals |-> <<vals>>, freqs |-> held.freqs]
  ELSE [vals |-> <<Maximum(held.vals[1], vals)>>, freqs |-> held.freqs]

\* The held pair [vals, freqs] after _update_plot(freqs, vals).
PeakUpdate(held, freqs, vals) ==
  IF held.vals = <<>> \/ held.freqs = <<>> \/ Len(held.vals[1]) # Len(vals)
  THEN [vals |-> <<vals>>, freqs |-> <<freqs>>]
  ELSE [vals |-> <<Maximum(held.vals[1], vals)>>, freqs |-> held.freqs]

\* The display state [max_vals, max_freqs, sweepBtn, contBtn] after the
\* posted callback e has run.
Callback(d, e) ==
  LET h == PeakUpdate([vals |-> d.max_vals[e.s], freqs |-> d.max_freqs[e.s]],
                      e.freqs, e.vals)
  IN [max_vals  |-> IF e.k = "trace" THEN [d.max_vals EXCEPT ![e.s] = h.vals]
                                     ELSE d.max_vals,
      max_freqs |-> IF e.k = "trace" THEN [d.max_freqs EXCEPT ![e.s] = h.freqs]
                                     ELSE d.max_freqs,
      sweepBtn  |-> IF e.k = "busy" THEN [d.sweepBtn EXCEPT ![e.s] = e.on]
                                    ELSE d.sweepBtn,
      contBtn   |-> IF e.k = "cont" THEN [d.contBtn EXCEPT ![e.s] = FALSE]
                                    ELSE d.contBtn]

RECURSIVE Callbacks(_, _)
Callbacks(d, q) == IF q = <<>> THEN d ELSE Callbacks(Callback(d, Head(q)), Tail(q))

Display == [max_vals |-> max_vals, max_freqs |-> max_freqs,
            sweepBtn |-> sweepBtn, contBtn |-> contBtn]

\* History kept for each loop while it is inside its while body: halt is 0
\* until the running flag goes from true to false in the middle of one of the
\* loop's iterations, and from then on 1 plus the number of iterations the
\* loop has started since (counted up to MaxHalt).
Halted(s, ts) ==
  [i \in DOMAIN ts |->
     IF continuous[s] /\ ts[i].kind = "loop" /\ ts[i].pc = "mid" /\ ts[i].halt = 0
     THEN [ts[i] EXCEPT !.halt = 1] ELSE ts[i]]

\* History kept for each loop: cut becomes true when the session's handle is
\* closed and dropped while the loop is inside one of its iterations.
Severed(ts) ==
  [i \in DOMAIN ts |->
     IF ts[i].kind = "loop" /\ ts[i].pc = "mid"
     THEN [ts[i] EXCEPT !.cut = TRUE] ELSE ts[i]]

\* History kept for each loop: late becomes true when a later start request
\* of the session sets the running flag again.
Overtaken(ts) ==
  [i \in DOMAIN ts |->
     IF ts[i].kind = "loop" THEN [ts[i] EXCEPT !.late = TRUE] ELSE ts[i]]

Further(h) == IF h = 0 \/ h = MaxHalt THEN h ELSE h + 1

\* ------------------------------------------------- Tk main thread: connect
\* connect1/connect2 with no handle held: _get_rm and open_resource.  The
\* handler then sleeps 2 s before it identifies, with the main thread held.
ConnectOpen(s) ==
  /\ ui = Idle
  /\ inst[s] = "none"
  /\ \/ \* _get_rm raises: no VISA backend
        /\ rm = FALSE
        /\ connected' = [connected EXCEPT ![s] = FALSE]
        /\ ui' = ErrorBox("open_failed", s)
        /\ UNCHANGED <<rm, inst, timeout>>
     \/ \* open_resource raises
        /\ rm' = TRUE
        /\ connected' = [connected EXCEPT ![s] = FALSE]
        /\ ui' = ErrorBox("open_failed", s)
        /\ UNCHANGED <<inst, timeout>>
     \/ \* opened, timeout set
        /\ rm' = TRUE
        /\ inst' = [inst EXCEPT ![s] = "open"]
        /\ timeout' = [timeout EXCEPT ![s] = TimeoutDefault]
        /\ ui' = [st |-> "connecting", s |-> s]
        /\ UNCHANGED connected
  /\ UNCHANGED <<continuous, contBtn, sweepBtn, max_vals, max_freqs, threads,
                 queue, sa, fnIn, fnOut>>

\* An identification whose failure leaves the opened handle in place.
ConnectIdentifyKeepsHandle(s) ==
  /\ ui = [st |-> "connecting", s |-> s]
  /\ \/ /\ connected' = [connected EXCEPT ![s] = TRUE]
        /\ ui' = Idle
        /\ UNCHANGED <<inst, timeout>>
     \/ /\ connected' = [connected EXCEPT ![s] = FALSE]
        /\ ui' = ErrorBox("identify_failed", s)
        /\ UNCHANGED <<inst, timeout>>
  /\ UNCHANGED <<rm, continuous, contBtn, sweepBtn, max_vals, max_freqs, threads,
                 queue, sa, fnIn, fnOut>>

\* connect1/connect2, second half: *IDN? write and read.
ConnectIdentify(s) ==
  /\ ui = [st |-> "connecting", s |-> s]
  /\ \/ /\ connected' = [connected EXCEPT ![s] = TRUE]
        /\ ui' = Idle
        /\ UNCHANGED <<inst, timeout>>
     \/ \* write or read raises: the reference is dropped, nothing is closed
        /\ inst' = [inst EXCEPT ![s] = "none"]
        /\ timeout' = [timeout EXCEPT ![s] = 0]
        /\ connected' = [connected EXCEPT ![s] = FALSE]
        /\ ui' = ErrorBox("identify_failed", s)
  /\ UNCHANGED <<rm, continuous, contBtn, sweepBtn, max_vals, max_freqs, threads,
                 queue, sa, fnIn, fnOut>>

\* The user closes the error box and connect1/connect2 returns.
ConnectFailed(s) ==
  /\ ui.st \in Causes
  /\ ui.s = s
  /\ ui' = Idle
  /\ UNCHANGED <<rm, inst, timeout, connected, continuous, contBtn, sweepBtn,
                 max_vals, max_freqs, threads, queue, sa, fnIn, fnOut>>

\* A disconnect that clears the running flag and the peak hold of both
\* sessions.
DisconnectBoth(s) ==
  /\ ui = Idle
  /\ inst[s] # "none"
  /\ continuous' = [x \in Sessions |-> FALSE]
  /\ contBtn' = [contBtn EXCEPT ![s] = FALSE]
  /\ inst' = [inst EXCEPT ![s] = "none"]
  /\ timeout' = [timeout EXCEPT ![s] = 0]
  /\ connected' = [connected EXCEPT ![s] = FALSE]
  /\ max_vals' = [x \in Sessions |-> <<>>]
  /\ max_freqs' = [x \in Sessions |-> <<>>]
  /\ threads' = [threads EXCEPT ![s] = Severed(Halted(s, threads[s]))]
  /\ queue' = Outdated({s}, queue)
  /\ UNCHANGED <<rm, sweepBtn, sa, ui, fnIn, fnOut>>

\* A disconnect that leaves the running flag as it is.
DisconnectKeepsFlag(s) ==
  /\ ui = Idle
  /\ inst[s] # "none"
  /\ contBtn' = [contBtn EXCEPT ![s] = FALSE]
  /\ inst' = [inst EXCEPT ![s] = "none"]
  /\ timeout' = [timeout EXCEPT ![s] = 0]
  /\ connected' = [connected EXCEPT ![s] = FALSE]
  /\ max_vals' = [max_vals EXCEPT ![s] = <<>>]
  /\ max_freqs' = [max_freqs EXCEPT ![s] = <<>>]
  /\ threads' = [threads EXCEPT ![s] = Severed(threads[s])]
  /\ queue' = Outdated({s}, queue)
  /\ UNCHANGED <<rm, continuous, sweepBtn, sa, ui, fnIn, fnOut>>

\* connect1/connect2 with a handle held: the disconnect branch.  The flag is
\* cleared first; close() may raise, the bare except passes, and the
\* reference is dropped either way, so both outcomes are this one step.
Disconnect(s) ==
  /\ ui = Idle
  /\ inst[s] # "none"
  /\ continuous' = [continuous EXCEPT ![s] = FALSE]
  /\ contBtn' = [contBtn EXCEPT ![s] = FALSE]
  /\ inst' = [inst EXCEPT ![s] = "none"]
  /\ timeout' = [timeout EXCEPT ![s] = 0]
  /\ connected' = [connected EXCEPT ![s] = FALSE]
  /\ max_vals' = [max_vals EXCEPT ![s] = <<>>]
  /\ max_freqs' = [max_freqs EXCEPT ![s] = <<>>]
  /\ threads' = [threads EXCEPT ![s] = Severed(Halted(s, threads[s]))]
  /\ queue' = Outdated({s}, queue)
  /\ UNCHANGED <<rm, sweepBtn, sa, ui, fnIn, fnOut>>

\* ------------------------------------------------ Tk main thread: sweeping
FreeSlots(s) == {i \in 1..MaxThreads : threads[s][i].kind = "none"}
LowestOf(S) == CHOOSE i \in S : \A j \in S : i <= j
Slots == 1..MaxThreads

IsLoop(s, i) == threads[s][i].kind = "loop"
IsSweep(s, i) == threads[s][i].kind = "sweep"

\* _start_continuous1/2: the thread is created and started.
StartContinuous(s) ==
  IF ~continuous'[s] \/ inst[s] = "none" THEN UNCHANGED threads
  ELSE threads' = [threads EXCEPT ![s] =
                     [Overtaken(threads[s]) EXCEPT ![LowestOf(FreeSlots(s))] =
                     [kind |-> "loop", pc |-> "setup", orig |-> 0, halt |-> 0, cut |-> FALSE, late |-> FALSE]]]

\* toggle_continuous1/2
ToggleContinuous(s) ==
  /\ ui = Idle
  /\ IF inst[s] = "none"
     THEN UNCHANGED <<continuous, contBtn, threads>>
     ELSE /\ continuous[s] \/ FreeSlots(s) # {}
          /\ continuous' = [continuous EXCEPT ![s] = ~continuous[s]]
          /\ contBtn' = [contBtn EXCEPT ![s] = continuous'[s]]
          /\ IF continuous'[s] THEN StartContinuous(s)
             ELSE threads' = [threads EXCEPT ![s] = Halted(s, threads[s])]
  /\ UNCHANGED <<rm, inst, timeout, connected, sweepBtn, max_vals, max_freqs,
                 queue, sa, ui, fnIn, fnOut>>

\* sweep1/sweep2: the sweep button is clickable only while it is enabled.
SweepRequest(s) ==
  /\ ui = Idle
  /\ ~sweepBtn[s]
  /\ IF inst[s] = "none"
     THEN UNCHANGED threads
     ELSE /\ FreeSlots(s) # {}
          /\ threads' = [threads EXCEPT ![s][LowestOf(FreeSlots(s))] =
                            [kind |-> "sweep", pc |-> "start", orig |-> 0, halt |-> 0, cut |-> FALSE, late |-> FALSE]]
  /\ UNCHANGED <<rm, inst, timeout, connected, continuous, contBtn, sweepBtn,
                 max_vals, max_freqs, queue, sa, ui, fnIn, fnOut>>

\* A reset that clears the axis and leaves the amplitudes.
ResetPeakAxisOnly(s) ==
  /\ ui = Idle
  /\ max_freqs' = [max_freqs EXCEPT ![s] = <<>>]
  /\ UNCHANGED <<rm, inst, timeout, connected, continuous, contBtn, sweepBtn,
                 max_vals, threads, queue, sa, ui, fnIn, fnOut>>

\* reset_peak1/2 (the second definition of reset_peak1 is the one bound)
ResetPeak(s) ==
  /\ ui = Idle
  /\ max_vals' = [max_vals EXCEPT ![s] = <<>>]
  /\ max_freqs' = [max_freqs EXCEPT ![s] = <<>>]
  /\ UNCHANGED <<rm, inst, timeout, connected, continuous, contBtn, sweepBtn,
                 threads, queue, sa, ui, fnIn, fnOut>>

\* One posted callback runs on the main thread, from the main loop or from
\* the event loop of an error box.
ProcessEvent ==
  /\ ui = Idle \/ ui.st \in Causes
  /\ queue # <<>>
  /\ LET d == Callback(Display, Head(queue)) IN
       /\ queue' = Tail(queue)
       /\ max_vals' = d.max_vals
       /\ max_freqs' = d.max_freqs
       /\ sweepBtn' = d.sweepBtn
       /\ contBtn' = d.contBtn
  /\ UNCHANGED <<rm, inst, timeout, connected, continuous, threads, sa,
                 ui, fnIn, fnOut>>

\* _reset_network: a close that raises leaves its reference in place.
ResetNetwork ==
  /\ ui = Idle
  /\ continuous' = [s \in Sessions |-> FALSE]
  /\ contBtn' = [s \in Sessions |-> FALSE]
  /\ \E closed \in [Sessions -> BOOLEAN] :
       /\ inst' = [s \in Sessions |->
                     IF inst[s] # "none" /\ ~closed[s] THEN inst[s] ELSE "none"]
       /\ timeout' = [s \in Sessions |-> IF inst'[s] = "none" THEN 0 ELSE timeout[s]]
  /\ \E rmClosed \in BOOLEAN : rm' = (rm /\ ~rmClosed)
  /\ connected' = [s \in Sessions |-> FALSE]
  /\ max_vals' = [s \in Sessions |-> <<>>]
  /\ max_freqs' = [s \in Sessions |-> <<>>]
  /\ threads' = [s \in Sessions |->
                    IF inst[s] # "none" /\ inst'[s] = "none"
                    THEN Severed(Halted(s, threads[s]))
                    ELSE Halted(s, threads[s])]
  /\ queue' = Outdated(Sessions, queue)
  /\ UNCHANGED <<sweepBtn, sa, ui, fnIn, fnOut>>

\* _on_closing: flags cleared, update() runs the callbacks that are pending,
\* the handles and the resource manager are closed (a failing close is
\* passed over), destroy() ends the main loop and with it the process and
\* its daemon threads.
OnClosing ==
  /\ ui = Idle
  /\ continuous' = [s \in Sessions |-> FALSE]
  /\ LET d == Callbacks(Display, queue) IN
       /\ max_vals' = d.max_vals
       /\ max_freqs' = d.max_freqs
       /\ sweepBtn' = d.sweepBtn
       /\ contBtn' = d.contBtn
  /\ queue' = <<>>
  /\ inst' = [s \in Sessions |-> "none"]
  /\ timeout' = [s \in Sessions |-> 0]
  /\ rm' = FALSE
  /\ threads' = [s \in Sessions |-> [i \in 1..MaxThreads |-> Dead]]
  /\ ui' = [st |-> "destroyed", s |-> 0]
  /\ UNCHANGED <<connected, sa, fnIn, fnOut>>

\* ------------------------------------------------------- worker helpers
\* The instrument after _configure_sa(self.inst, ...): with no handle the
\* first write raises inside the try block and nothing is sent.
Configured(s, r, failAt) ==
  IF inst[s] = "open"
  THEN SaWrites(sa[s], ConfigureSa(ConfigCommands(PanelConfig(r)), failAt))
  ELSE sa[s]

FailPoints == 0..9

\* _read_trace_ascii_block on a trace of amplitudes v: the axis is rebuilt
\* from the instrument's start and stop and the decoded count.
ReadTrace(s, v) == TraceEv(s, Linspace(sa[s].start, sa[s].stop, Len(v)), v)

SetPc(s, i, pc) == threads' = [threads EXCEPT ![s][i].pc = pc]
EndThread(s, i) == threads' = [threads EXCEPT ![s][i] = Dead]
LeaveBody(s, i, pc) ==
  threads' = [threads EXCEPT ![s][i].pc = pc, ![s][i].halt = 0]
Post(evs) == queue' = queue \o evs

\* ------------------------------------------------- do_sweep (single sweep)
\* Range and menu values read, busy-on posted, _configure_sa.
SweepStart(s, i) ==
  /\ IsSweep(s, i) /\ threads[s][i].pc = "start"
  /\ CanPost(1)
  /\ \E p \in PanelInputs :
       LET r == GetFreqRange(p) IN
         IF r.err
         THEN /\ Post(<<BusyEv(s, FALSE)>>)
              /\ EndThread(s, i)
              /\ UNCHANGED sa
         ELSE /\ Post(<<BusyEv(s, TRUE)>>)
              /\ \E failAt \in FailPoints :
                   sa' = [sa EXCEPT ![s] = Configured(s, r, failAt)]
              /\ SetPc(s, i, "single")
  /\ UNCHANGED <<rm, inst, timeout, connected, continuous, contBtn, sweepBtn,
                 max_vals, max_freqs, ui, fnIn, fnOut>>

\* _single_sweep: :INIT:CONT OFF, :INIT, the sweep-time query (its failure
\* is swallowed), the wait.
SweepSingle(s, i) ==
  /\ IsSweep(s, i) /\ threads[s][i].pc = "single"
  /\ \/ \* both writes went through
        /\ inst[s] = "open"
        /\ sa' = [sa EXCEPT ![s] = SaWrite(sa[s], Cmd(":INIT:CONT OFF", 0))]
        /\ SetPc(s, i, "read")
        /\ UNCHANGED queue
     \/ \* :INIT raised
        /\ inst[s] = "open"
        /\ sa' = [sa EXCEPT ![s] = SaWrite(sa[s], Cmd(":INIT:CONT OFF", 0))]
        /\ CanPost(1)
        /\ Post(<<BusyEv(s, FALSE)>>)
        /\ EndThread(s, i)
     \/ \* :INIT:CONT OFF raised (always, without a handle)
        /\ CanPost(1)
        /\ Post(<<BusyEv(s, FALSE)>>)
        /\ EndThread(s, i)
        /\ UNCHANGED sa
  /\ UNCHANGED <<rm, inst, timeout, connected, continuous, contBtn, sweepBtn,
                 max_vals, max_freqs, ui, fnIn, fnOut>>

\* A trace read whose failure ends the thread without the busy-off hand-off.
SweepReadLeavesBusy(s, i) ==
  /\ IsSweep(s, i) /\ threads[s][i].pc = "read"
  /\ \/ /\ inst[s] = "open"
        /\ CanPost(1)
        /\ \E v \in Traces : Post(<<ReadTrace(s, v)>>)
        /\ SetPc(s, i, "done")
     \/ /\ EndThread(s, i)
        /\ UNCHANGED queue
  /\ UNCHANGED <<rm, inst, timeout, connected, continuous, contBtn, sweepBtn,
                 max_vals, max_freqs, sa, ui, fnIn, fnOut>>

\* _read_trace_ascii_block, then the hand-offs of the outcome.
SweepRead(s, i) ==
  /\ IsSweep(s, i) /\ threads[s][i].pc = "read"
  /\ CanPost(1)
  /\ \/ /\ inst[s] = "open"
        /\ \E v \in Traces : Post(<<ReadTrace(s, v)>>)
        /\ SetPc(s, i, "done")
     \/ \* a write, a read or the parse raised
        /\ Post(<<BusyEv(s, FALSE)>>)
        /\ EndThread(s, i)
  /\ UNCHANGED <<rm, inst, timeout, connected, continuous, contBtn, sweepBtn,
                 max_vals, max_freqs, sa, ui, fnIn, fnOut>>

\* After the trace hand-off: the busy-off hand-off; the thread ends.
SweepDone(s, i) ==
  /\ IsSweep(s, i) /\ threads[s][i].pc = "done"
  /\ CanPost(1)
  /\ Post(<<BusyEv(s, FALSE)>>)
  /\ EndThread(s, i)
  /\ UNCHANGED <<rm, inst, timeout, connected, continuous, contBtn, sweepBtn,
                 max_vals, max_freqs, sa, ui, fnIn, fnOut>>

\* --------------------------------------------- do_continuous (the loop)
\* Range and menu values, _configure_sa, :INIT:CONT OFF, then
\* original_timeout = inst.timeout; inst.timeout = 30000.
LoopSetup(s, i) ==
  /\ IsLoop(s, i) /\ threads[s][i].pc = "setup"
  /\ \E p \in PanelInputs :
       LET r == GetFreqRange(p) IN
         IF r.err
         THEN /\ SetPc(s, i, "fin")
              /\ UNCHANGED <<sa, timeout>>
         ELSE \E failAt \in FailPoints :
                \/ /\ inst[s] = "open"
                   /\ sa' = [sa EXCEPT ![s] =
                               SaWrite(Configured(s, r, failAt), Cmd(":INIT:CONT OFF", 0))]
                   /\ threads' = [threads EXCEPT ![s][i].pc = "top",
                                                 ![s][i].orig = timeout[s]]
                   /\ timeout' = [timeout EXCEPT ![s] = TimeoutCont]
                \/ \* :INIT:CONT OFF raised (always, without a handle)
                   /\ sa' = [sa EXCEPT ![s] = Configured(s, r, failAt)]
                   /\ SetPc(s, i, "fin")
                   /\ UNCHANGED timeout
  /\ UNCHANGED <<rm, inst, connected, continuous, contBtn, sweepBtn,
                 max_vals, max_freqs, queue, ui, fnIn, fnOut>>

\* The while test, and when it passes :INIT and the :SWE:TIME? write.
LoopTop(s, i) ==
  /\ IsLoop(s, i) /\ threads[s][i].pc = "top"
  /\ IF continuous[s] /\ inst[s] # "none"
     THEN \/ /\ inst[s] = "open"
             /\ threads' = [threads EXCEPT ![s][i].pc = "mid",
                                           ![s][i].halt = Further(@)]
          \/ LeaveBody(s, i, "fail")
     ELSE LeaveBody(s, i, "restore")
  /\ UNCHANGED <<rm, inst, timeout, connected, continuous, contBtn, sweepBtn,
                 max_vals, max_freqs, queue, sa, ui, fnIn, fnOut>>

\* An iteration that applies its trace to the peak hold itself.
LoopIterateDirect(s, i) ==
  /\ IsLoop(s, i) /\ threads[s][i].pc = "mid"
  /\ \/ /\ inst[s] = "open"
        /\ \E v \in Traces :
             LET d == Callback(Display, ReadTrace(s, v))
             IN max_vals' = d.max_vals /\ max_freqs' = d.max_freqs
        /\ SetPc(s, i, "top")
     \/ /\ LeaveBody(s, i, "fail")
        /\ UNCHANGED <<max_vals, max_freqs>>
  /\ UNCHANGED <<rm, inst, timeout, connected, continuous, contBtn, sweepBtn,
                 queue, sa, ui, fnIn, fnOut>>

\* The sweep-time read (its failure is swallowed), the wait, the trace read
\* and its hand-off.
LoopIterate(s, i) ==
  /\ IsLoop(s, i) /\ threads[s][i].pc = "mid"
  /\ \/ /\ inst[s] = "open"
        /\ CanPost(1)
        /\ \E v \in Traces : Post(<<ReadTrace(s, v)>>)
        /\ SetPc(s, i, "top")
     \/ /\ LeaveBody(s, i, "fail")
        /\ UNCHANGED queue
  /\ UNCHANGED <<rm, inst, timeout, connected, continuous, contBtn, sweepBtn,
                 max_vals, max_freqs, sa, ui, fnIn, fnOut>>

\* A handler that goes back to the while test in place of the break.
LoopFailContinues(s, i) ==
  /\ IsLoop(s, i) /\ threads[s][i].pc = "fail"
  /\ SetPc(s, i, "top")
  /\ UNCHANGED <<rm, inst, timeout, connected, continuous, contBtn, sweepBtn,
                 max_vals, max_freqs, queue, sa, ui, fnIn, fnOut>>

\* except Exception as sweep_err: sleep 0.5 s, break
LoopFail(s, i) ==
  /\ IsLoop(s, i) /\ threads[s][i].pc = "fail"
  /\ SetPc(s, i, "restore")
  /\ UNCHANGED <<rm, inst, timeout, connected, continuous, contBtn, sweepBtn,
                 max_vals, max_freqs, queue, sa, ui, fnIn, fnOut>>

\* inst.timeout = original_timeout; without a handle it raises into the
\* outer except.
LoopRestore(s, i) ==
  /\ IsLoop(s, i) /\ threads[s][i].pc = "restore"
  /\ timeout' = IF inst[s] = "open"
                THEN [timeout EXCEPT ![s] = threads[s][i].orig]
                ELSE timeout
  /\ SetPc(s, i, "fin")
  /\ UNCHANGED <<rm, inst, connected, continuous, contBtn, sweepBtn,
                 max_vals, max_freqs, queue, sa, ui, fnIn, fnOut>>

\* finally: try: inst.write(":INIT:CONT OFF") except: pass
LoopFinally(s, i) ==
  /\ IsLoop(s, i) /\ threads[s][i].pc = "fin"
  /\ \/ /\ inst[s] = "open"
        /\ sa' = [sa EXCEPT ![s] = SaWrite(sa[s], Cmd(":INIT:CONT OFF", 0))]
        /\ SetPc(s, i, "fin_ok")
     \/ /\ SetPc(s, i, "fin_pass")
        /\ UNCHANGED sa
  /\ UNCHANGED <<rm, inst, timeout, connected, continuous, contBtn, sweepBtn,
                 max_vals, max_freqs, queue, ui, fnIn, fnOut>>

\* A finally block without self.continuous = False.
LoopExitKeepsFlag(s, i) ==
  /\ IsLoop(s, i) /\ threads[s][i].pc \in {"fin_ok", "fin_pass"}
  /\ CanPost(1)
  /\ Post(<<ContEv(s)>>)
  /\ EndThread(s, i)
  /\ UNCHANGED <<rm, inst, timeout, connected, continuous, contBtn, sweepBtn,
                 max_vals, max_freqs, sa, ui, fnIn, fnOut>>

\* finally: self.continuous = False; the indicator hand-off; the thread ends.
LoopExit(s, i) ==
  /\ IsLoop(s, i) /\ threads[s][i].pc \in {"fin_ok", "fin_pass"}
  /\ CanPost(1)
  /\ continuous' = [continuous EXCEPT ![s] = FALSE]
  /\ Post(<<ContEv(s)>>)
  /\ threads' = [threads EXCEPT ![s] = Halted(s, [threads[s] EXCEPT ![i] = Dead])]
  /\ UNCHANGED <<rm, inst, timeout, connected, contBtn, sweepBtn,
                 max_vals, max_freqs, sa, ui, fnIn, fnOut>>

\* ------------------------------------------------------------ the program
SessionNext(s) ==
  \/ ConnectOpen(s)
  \/ ConnectIdentify(s)
  \/ ConnectFailed(s)
  \/ Disconnect(s)
  \/ ToggleContinuous(s)
  \/ SweepRequest(s)
  \/ ResetPeak(s)
  \/ \E i \in Slots :
       SweepStart(s, i) \/ SweepSingle(s, i) \/ SweepRead(s, i) \/ SweepDone(s, i)
  \/ \E i \in Slots :
       \/ LoopSetup(s, i) \/ LoopTop(s, i) \/ LoopIterate(s, i)
       \/ LoopFail(s, i) \/ LoopRestore(s, i) \/ LoopFinally(s, i) \/ LoopExit(s, i)

\* One session in use, the other never connected.
Driven == {1}

Next ==
  \/ \E s \in Driven : SessionNext(s)
  \/ ProcessEvent
  \/ ResetNetwork
  \/ OnClosing

Spec == Init /\ [][Next]_vars

\* Both sessions in use, each with at most DualThreads worker threads alive;
\* the operations issued against one session, and the callbacks.
AliveIn(s) == Cardinality({i \in Slots : threads[s][i].kind # "none"})
DualCap == \A s \in Sessions : AliveIn(s) <= DualThreads

NextDual ==
  \/ \E s \in Sessions : SessionNext(s) /\ DualCap'
  \/ ProcessEvent

SpecDual == Init /\ [][NextDual]_vars

\* ------------------------------------- range resolution and configuration
\* Texts the user may leave in a range field, and the menu choices.
ConfigTexts ==
  { <<"0">>, <<"2">>, <<"1", "0">>, <<"1", ",", "5">>, <<"-", "1">>,
    <<"x">>, <<>> }
ConfigPanels ==
  [freq_mode : {"start_stop", "center_span"}, f1 : ConfigTexts, f2 : ConfigTexts]
ConfigBwRes == { <<>>, <<"1", "0", "k">>, <<"1", "M">> }
ConfigInputs == [panel : ConfigPanels, bw_res : ConfigBwRes, failAt : FailPoints]

\* do_sweep / do_continuous up to the end of _configure_sa: raised is TRUE
\* when the range did not resolve, else writes are the writes issued.
DoSweepSetup(x) ==
  LET r == GetFreqRange(x.panel) IN
    IF r.err THEN [done |-> TRUE, raised |-> TRUE, writes |-> <<>>]
    ELSE [done |-> TRUE, raised |-> FALSE,
          writes |-> ConfigureSa(
                       ConfigCommands([start |-> r.start, stop |-> r.stop,
                                       points |-> PanelPoints,
                                       bw_res |-> x.bw_res, bw_vid |-> PanelBw]),
                       x.failAt)]

InitConfig ==
  /\ Constructed
  /\ fnIn \in ConfigInputs
  /\ fnOut = [done |-> FALSE, raised |-> FALSE, writes |-> <<>>]

ResolveAndConfigure ==
  /\ ~fnOut.done
  /\ fnOut' = DoSweepSetup(fnIn)
  /\ UNCHANGED <<rm, inst, timeout, connected, continuous, contBtn, sweepBtn,
                 max_vals, max_freqs, threads, queue, sa, ui, fnIn>>

SpecConfig == InitConfig /\ [][ResolveAndConfigure]_vars

\* ------------------------------------------------------------- peak hold
\* Traces handed to _update_plot: every amplitude array within the bounds,
\* and three more.
PeakTraces == TracesOf(PeakPoints, PeakAmp) \cup { <<1, 2, 3>>, <<0, 5, 1>>, <<9>> }
\* Start and stop (in units) of the instrument when the trace was read.
PeakRanges == { <<0, 40>>, <<20, 60>> }

NoTrace == [n |-> 0, s |-> 0, freqs |-> <<>>, vals |-> <<>>]
NoHeld == [vals |-> <<>>, freqs |-> <<>>]

InitPeak == Constructed /\ fnIn = NoTrace /\ fnOut = NoHeld

\* The callback _update_plot1/2(freqs, vals) runs.  fnIn keeps the trace
\* (n alternates with each call), fnOut the pair held before the call.
UpdatePlot(s) ==
  \E v \in PeakTraces, r \in PeakRanges :
    LET f == Linspace(r[1] * HzPerUnit, r[2] * HzPerUnit, Len(v))
        d == Callback(Display, TraceEv(s, f, v))
    IN /\ max_vals' = d.max_vals
       /\ max_freqs' = d.max_freqs
       /\ fnIn' = [n |-> 1 - fnIn.n, s |-> s, freqs |-> f, vals |-> v]
       /\ fnOut' = [vals |-> max_vals[s], freqs |-> max_freqs[s]]
       /\ UNCHANGED <<rm, inst, timeout, connected, continuous, contBtn,
                      sweepBtn, threads, queue, sa, ui>>

NextPeak ==
  \/ \E s \in Driven : UpdatePlot(s)
  \/ \E s \in Driven : ResetPeak(s)

SpecPeak == InitPeak /\ [][NextPeak]_vars

\* ================================================================= claims
InBody(s, i) == IsLoop(s, i) /\ threads[s][i].pc \in {"top", "mid"}
AfterBody(s, i) ==
  IsLoop(s, i) /\ threads[s][i].pc \in {"fail", "restore", "fin", "fin_ok", "fin_pass"}
LoopsOf(s) == {i \in Slots : IsLoop(s, i)}
\* Thread i of session s ends in this step, the process living on.
Exits(s, i) ==
  IsLoop(s, i) /\ threads'[s][i].kind = "none" /\ ui'.st # "destroyed"

\* C1: at any time at most one continuous loop of a session is alive.
C1_OneLoopPerSession ==
  \A s \in Sessions : Cardinality(LoopsOf(s)) <= 1

\* C2: at any time at most one sweep operation of a session is between its
\* first and its last instrument command: a continuous loop inside its
\* while loop, or a single sweep that has triggered and not yet read.
InFlight(s, i) == InBody(s, i) \/ (IsSweep(s, i) /\ threads[s][i].pc = "read")
C2_OneOperationPerSession ==
  \A s \in Sessions : Cardinality({i \in Slots : InFlight(s, i)}) <= 1

\* C3 as stated: whenever a continuous loop exits, the instrument is in
\* non-continuous trigger mode and the running flag is false.
C3_ExitRestoresTrigger ==
  [][\A s \in Sessions : \A i \in Slots :
       Exits(s, i) => (~sa'[s].cont /\ ~continuous'[s])]_vars

\* C3 amended: a continuous loop exits only through its finally block and
\* the running flag is false when it has exited; the final :INIT:CONT OFF
\* write, when it goes through, leaves the instrument in non-continuous
\* trigger mode, and so the instrument is when the loop exits after it.
C3_ExitThroughFinally ==
  [][\A s \in Sessions : \A i \in Slots :
       /\ Exits(s, i) =>
            (threads[s][i].pc \in {"fin_ok", "fin_pass"} /\ ~continuous'[s])
       /\ (IsLoop(s, i) /\ threads[s][i].pc = "fin"
             /\ threads'[s][i].pc = "fin_ok") => ~sa'[s].cont
       /\ (Exits(s, i) /\ threads[s][i].pc = "fin_ok") => ~sa'[s].cont]_vars

\* A loop whose handle was taken away is about to exit, its final write
\* suppressed, the instrument still in continuous trigger mode.
C3_Witness ==
  \E s \in Sessions : \E i \in Slots :
    /\ IsLoop(s, i) /\ threads[s][i].pc = "fin_pass"
    /\ inst[s] = "none" /\ sa[s].cont

\* C4: with a handle held and no continuous loop of the session alive, the
\* handle's timeout is the default 120000 ms.
C4_TimeoutRestored ==
  \A s \in Sessions :
    (inst[s] = "open" /\ LoopsOf(s) = {}) => timeout[s] = TimeoutDefault

\* C5: a loop whose running flag was set to false in the middle of an
\* iteration starts at most one further iteration.
C5_AtMostOneFurtherIteration ==
  \A s \in Sessions : \A i \in Slots : threads[s][i].halt <= 2

\* C6: a loop that met a failure in an iteration, or left its while loop,
\* never goes back into it (no further trigger), and a loop is started only
\* by a start request: a step of the idle main thread that turns the running
\* flag from false to true.
C6_FailureTerminatesLoop ==
  [][\A s \in Sessions : \A i \in Slots :
       /\ AfterBody(s, i) =>
            (threads'[s][i].kind = "none"
               \/ threads'[s][i].pc \in {"fail", "restore", "fin", "fin_ok", "fin_pass"})
       /\ (~IsLoop(s, i) /\ threads'[s][i].kind = "loop") =>
            (ui = Idle /\ ~continuous[s] /\ continuous'[s])]_vars

\* An iteration has failed while the running flag is still true.
C6_Witness ==
  \E s \in Sessions : \E i \in Slots :
    IsLoop(s, i) /\ threads[s][i].pc = "fail" /\ continuous[s] /\ inst[s] = "open"

\* C7: when the resolution-bandwidth write raises, the frequency and
\* point-count writes are still issued.
C7_LaterWritesIssued ==
  (fnOut.done /\ ~fnOut.raised /\ fnIn.failAt = 1) =>
    \A c \in {":FREQ:STAR", ":FREQ:STOP", ":FREQ:CENT", ":FREQ:SPAN", ":SWE:POIN"} :
      \E j \in DOMAIN fnOut.writes : fnOut.writes[j].cmd = c

\* C8: no configuration write is issued for a range whose start is not
\* below its stop.
C8_NoWriteForBadRange ==
  fnOut.done =>
    \A j, k \in DOMAIN fnOut.writes :
      (fnOut.writes[j].cmd = ":FREQ:STAR" /\ fnOut.writes[k].cmd = ":FREQ:STOP")
        => fnOut.writes[j].arg < fnOut.writes[k].arg

\* C9: an operation issued against one session, a step of one of its
\* threads, or a callback of one session leaves the other session's handle,
\* running flag, timeout and peak hold unchanged.
Frame(o) ==
  /\ inst'[o] = inst[o]
  /\ continuous'[o] = continuous[o]
  /\ timeout'[o] = timeout[o]
  /\ max_vals'[o] = max_vals[o]
  /\ max_freqs'[o] = max_freqs[o]
C9_SessionIsolation ==
  [][\A s \in Sessions :
       /\ SessionNext(s) => Frame(Other(s))
       /\ (ProcessEvent /\ Head(queue).s = s) => Frame(Other(s))]_vars

\* Both sessions hold a peak and run a loop; one loop has failed, the loop
\* of the other session is in the middle of an iteration.
C9_Witness ==
  \E s \in Sessions :
    /\ \E i \in Slots : IsLoop(s, i) /\ threads[s][i].pc = "fail"
    /\ \E i \in Slots : IsLoop(Other(s), i) /\ threads[Other(s)][i].pc = "mid"
    /\ continuous[Other(s)] /\ timeout[Other(s)] = TimeoutCont
    /\ max_vals[Other(s)] # <<>>

\* C10: an update of the same length as the held peak leaves, at every
\* index, the larger of the held and the new value, and leaves the held
\* frequency axis as it was.
C10_PeakHoldMaximum ==
  [][\A s \in Sessions :
       (/\ fnIn'.n # fnIn.n /\ fnIn'.s = s
        /\ max_vals[s] # <<>> /\ max_freqs[s] # <<>>
        /\ Len(max_vals[s][1]) = Len(fnIn'.vals))
       => /\ max_vals'[s] =
               << [j \in 1..Len(fnIn'.vals) |->
                     IF max_vals[s][1][j] >= fnIn'.vals[j]
                     THEN max_vals[s][1][j] ELSE fnIn'.vals[j]] >>
          /\ max_freqs'[s] = max_freqs[s]]_vars

\* update([1,2,3]) then update([0,5,1]) on another axis holds [1,5,3].
C10_Witness ==
  \E s \in Sessions :
    /\ fnOut.vals = << <<1, 2, 3>> >> /\ fnIn.vals = <<0, 5, 1>> /\ fnIn.s = s
    /\ max_vals[s] = << <<1, 5, 3>> >>
    /\ fnOut.freqs # <<fnIn.freqs>>
    /\ max_freqs[s] = fnOut.freqs

\* The update step of SpecPeak / SpecHold for session s, and its reset step
\* (the only other step that changes the held pair in SpecPeak).
Updated(s) == fnIn'.n # fnIn.n /\ fnIn'.s = s
Held(s) == [vals |-> max_vals[s], freqs |-> max_freqs[s]]

\* C11: an update with nothing held, or with a held length other than the
\* trace's, leaves exactly the trace's amplitudes and axis held.
C11_PeakReinitialized ==
  [][\A s \in Sessions :
       (/\ Updated(s)
        /\ \/ max_vals[s] = <<>> \/ max_freqs[s] = <<>>
           \/ Len(max_vals[s][1]) # Len(fnIn'.vals))
       => /\ max_vals'[s] = <<fnIn'.vals>>
          /\ max_freqs'[s] = <<fnIn'.freqs>>]_vars

\* A held peak of another length and another axis was replaced.
C11_Witness ==
  \E s \in Sessions :
    /\ fnIn.s = s /\ fnOut.vals # <<>>
    /\ Len(fnOut.vals[1]) > Len(fnIn.vals)
    /\ fnOut.freqs # <<fnIn.freqs>>
    /\ Held(s) = [vals |-> <<fnIn.vals>>, freqs |-> <<fnIn.freqs>>]

\* C12: a reset leaves nothing held, and an update that finds nothing held
\* leaves exactly its trace held.
C12_ResetThenUpdate ==
  [][\A s \in Sessions :
       /\ (fnIn' = fnIn /\ Held(s)' # Held(s)) => Held(s)' = NoHeld
       /\ (Updated(s) /\ Held(s) = NoHeld)
            => Held(s)' = [vals |-> <<fnIn'.vals>>, freqs |-> <<fnIn'.freqs>>]]_vars

\* After at least one update and a reset, update([9]) holds [9].
C12_Witness ==
  \E s \in Sessions :
    /\ fnIn.n = 0 /\ fnIn.s = s /\ fnOut = NoHeld
    /\ fnIn.vals = <<9>> /\ max_vals[s] = << <<9>> >>

\* ------------------------------------- peak hold across connect and reset
\* Updates and resets of the peak hold together with connect, disconnect
\* and network reset.
NextHold ==
  \/ NextPeak
  \/ \E s \in Driven :
       ConnectOpen(s) \/ ConnectIdentify(s) \/ ConnectFailed(s) \/ Disconnect(s)
  \/ ResetNetwork

SpecHold == InitPeak /\ [][NextHold]_vars

\* C13: for each session the held axis and the held amplitudes are both
\* absent, or both present and of one length.
C13_AxisMatchesAmplitudes ==
  \A s \in Sessions :
    /\ (max_vals[s] = <<>>) <=> (max_freqs[s] = <<>>)
    /\ max_vals[s] # <<>> => Len(max_vals[s][1]) = Len(max_freqs[s][1])

\* A peak of length 3 is held on a connected session after a shorter one.
C13_Witness ==
  \E s \in Sessions :
    /\ inst[s] = "open" /\ max_vals[s] # <<>> /\ Len(max_vals[s][1]) = 3
    /\ fnOut.vals # <<>> /\ Len(fnOut.vals[1]) < 3

\* ------------------------------------------------ _read_trace_ascii_block
\* str.strip() on the modelled alphabet (the blank is the only whitespace).
RECURSIVE StripLeft(_)
StripLeft(txt) ==
  IF txt # <<>> /\ Head(txt) = " " THEN StripLeft(Tail(txt)) ELSE txt
RECURSIVE StripRight(_)
StripRight(txt) ==
  IF txt # <<>> /\ txt[Len(txt)] = " "
  THEN StripRight(SubSeq(txt, 1, Len(txt) - 1)) ELSE txt
Strip(txt) == StripRight(StripLeft(txt))

\* int(text): blanks around, an optional sign, digits.
ParseInt(txt) ==
  LET body == Strip(txt)
      sign == body # <<>> /\ body[1] \in {"-", "+"}
      ds   == IF sign THEN Tail(body) ELSE body
      ok   == ds # <<>> /\ AllDigits(ds)
      mag  == IF ok THEN DigitsVal(ds) ELSE 0
  IN [err |-> ~ok, val |-> IF sign /\ body[1] = "-" THEN 0 - mag ELSE mag]

\* text[a:b] of Python for a >= 0 (0-based, b exclusive, a negative b counts
\* from the end).
PySlice(txt, a, b) ==
  LET e == IF b < 0 THEN (IF Len(txt) + b < 0 THEN 0 ELSE Len(txt) + b)
           ELSE IF b > Len(txt) THEN Len(txt) ELSE b
  IN IF a >= e THEN <<>> ELSE SubSeq(txt, a + 1, e)

\* A data region that runs to the end of the response, whatever the length
\* field says.
DataRegionToEnd(raw) ==
  IF raw # <<>> /\ raw[1] = "#"
  THEN IF Len(raw) < 2 \/ ~IsDigit(raw[2]) THEN [err |-> TRUE, data |-> <<>>]
       ELSE [err |-> FALSE, data |-> PySlice(raw, 2 + DigitVal(raw[2]), Len(raw))]
  ELSE [err |-> FALSE, data |-> raw]

\* The data region of the stripped response raw: err is TRUE when raw[1] or
\* one of the int() conversions raised.
DataRegion(raw) ==
  IF raw # <<>> /\ raw[1] = "#"
  THEN IF Len(raw) < 2 \/ ~IsDigit(raw[2]) THEN [err |-> TRUE, data |-> <<>>]
       ELSE LET n_digits   == DigitVal(raw[2])
                data_len   == ParseInt(PySlice(raw, 2, 2 + n_digits))
                header_len == 2 + n_digits
            IN IF data_len.err THEN [err |-> TRUE, data |-> <<>>]
               ELSE [err |-> FALSE,
                     data |-> PySlice(raw, header_len, header_len + data_len.val)]
  ELSE [err |-> FALSE, data |-> raw]

\* data_str.split(",")
RECURSIVE SplitComma(_)
SplitComma(txt) ==
  LET commas == {i \in 1..Len(txt) : txt[i] = ","} IN
    IF commas = {} THEN <<txt>>
    ELSE LET c == CHOOSE i \in commas : \A j \in commas : i <= j
         IN <<SubSeq(txt, 1, c - 1)>> \o SplitComma(SubSeq(txt, c + 1, Len(txt)))

\* A filter that keeps every token.
DropNothing(parts) == parts

\* [p for p in parts if p.strip()]
RECURSIVE DropEmpty(_)
DropEmpty(parts) ==
  IF parts = <<>> THEN <<>>
  ELSE IF Strip(Head(parts)) = <<>> THEN DropEmpty(Tail(parts))
  ELSE <<Head(parts)>> \o DropEmpty(Tail(parts))

\* np.array([float(p) for p in parts]): float() strips blanks itself.
ParseAmplitudes(parts) ==
  LET fs == [i \in 1..Len(parts) |-> ParseFloat(Strip(parts[i]))]
  IN [err |-> \E i \in 1..Len(parts) : fs[i].err,
      vals |-> [i \in 1..Len(parts) |-> fs[i].val]]

\* A decode that builds the axis from the declared point count.
ReadTraceDeclaredAxis(r) ==
  LET points  == ParseInt(r.points)
      f_start == ParseFloat(Strip(r.f_start))
      f_stop  == ParseFloat(Strip(r.f_stop))
      region  == DataRegion(Strip(r.raw))
      amps    == ParseAmplitudes(DropEmpty(SplitComma(region.data)))
  IN IF points.err \/ f_start.err \/ f_stop.err \/ region.err \/ amps.err
     THEN [err |-> TRUE, warned |-> FALSE, data |-> <<>>, freqs |-> <<>>, vals |-> <<>>]
     ELSE [err |-> FALSE,
           warned |-> Len(amps.vals) # points.val,
           data |-> region.data,
           freqs |-> Linspace(f_start.val, f_stop.val, points.val),
           vals |-> amps.vals]

\* _read_trace_ascii_block on the four responses of the instrument:
\* r = [points, f_start, f_stop, raw], each as read.  err is TRUE when a
\* conversion raised; warned when the count-mismatch line is printed.
NoDecode ==
  [err |-> TRUE, warned |-> FALSE, data |-> <<>>, freqs |-> <<>>, vals |-> <<>>]
ReadTraceAsciiBlock(r) ==
  LET points  == ParseInt(r.points)
      f_start == ParseFloat(Strip(r.f_start))
      f_stop  == ParseFloat(Strip(r.f_stop))
      region  == DataRegion(Strip(r.raw))
      amps    == ParseAmplitudes(DropEmpty(SplitComma(region.data)))
  IN IF points.err \/ f_start.err \/ f_stop.err \/ region.err \/ amps.err
     THEN NoDecode
     ELSE [err |-> FALSE,
           warned |-> Len(amps.vals) # points.val,
           data |-> region.data,
           freqs |-> Linspace(f_start.val, f_stop.val, Len(amps.vals)),
           vals |-> amps.vals]

\* ------------------------------------------- the instrument's trace reply
\* Decimal digits of n >= 0.
RECURSIVE IntToDigits(_)
IntToDigits(n) ==
  IF n < 10 THEN <<Digits[n + 1]>>
  ELSE IntToDigits(n \div 10) \o <<Digits[(n % 10) + 1]>>

\* An amplitude (in units of 1/20, a whole number of tenths) as the
\* instrument writes it: sign, integer part, point, one decimal.
FormatAmp(a) ==
  LET mag == IF a < 0 THEN 0 - a ELSE a
  IN (IF a < 0 THEN <<"-">> ELSE <<>>)
       \o IntToDigits(mag \div 20) \o <<".">> \o IntToDigits((mag % 20) \div 2)

\* One item of the reply: an amplitude, an empty token, a blank token.
ItemText(it) ==
  IF it.k = "val" THEN FormatAmp(it.v) ELSE IF it.k = "blank" THEN <<" ">> ELSE <<>>

RECURSIVE JoinComma(_)
JoinComma(items) ==
  IF items = <<>> THEN <<>>
  ELSE IF Len(items) = 1 THEN ItemText(items[1])
  ELSE ItemText(Head(items)) \o <<",">> \o JoinComma(Tail(items))

\* The definite-length block: '#', the digit count of the length, the
\* length, the payload.
EncodeBlock(payload) ==
  LET len == IntToDigits(Len(payload))
  IN <<"#">> \o IntToDigits(Len(len)) \o len \o payload

DecodeAmps == {0 - 30, 0, 250}
DecodeItems ==
  { [k |-> "val", v |-> a] : a \in DecodeAmps }
    \cup { [k |-> "empty", v |-> 0], [k |-> "blank", v |-> 0] }
DecodeTails == { <<>>, <<",", "7">>, <<" ">> }
DecodePoints == { <<"2">>, <<" ", "3">>, <<"x">> }
DecodeRanges == { <<<<"0">>, <<"2">>>>, <<<<"1">>, <<"1">>>> }
DecodeInputs ==
  [items : UNION { [1..n -> DecodeItems] : n \in 0..DecodeLen },
   tail : DecodeTails, points : DecodePoints, range : DecodeRanges]

\* The amplitudes among the items, in order.
RECURSIVE ItemValues(_)
ItemValues(items) ==
  IF items = <<>> THEN <<>>
  ELSE IF Head(items).k = "val" THEN <<Head(items).v>> \o ItemValues(Tail(items))
  ELSE ItemValues(Tail(items))

InitDecode ==
  /\ Constructed
  /\ fnIn \in DecodeInputs
  /\ fnOut = [done |-> FALSE, blk |-> NoDecode, pln |-> NoDecode]

\* The reply is read twice: as a block followed by the tail, and as the bare
\* payload.
DecodeReply ==
  /\ ~fnOut.done
  /\ LET payload == JoinComma(fnIn.items)
         resp(raw) == [points |-> fnIn.points, f_start |-> fnIn.range[1],
                       f_stop |-> fnIn.range[2], raw |-> raw]
     IN fnOut' = [done |-> TRUE,
                  blk |-> ReadTraceAsciiBlock(resp(EncodeBlock(payload) \o fnIn.tail)),
                  pln |-> ReadTraceAsciiBlock(resp(payload))]
  /\ UNCHANGED <<rm, inst, timeout, connected, continuous, contBtn, sweepBtn,
                 max_vals, max_freqs, threads, queue, sa, ui, fnIn>>

SpecDecode == InitDecode /\ [][DecodeReply]_vars

Readable == ~ParseInt(fnIn.points).err
Payload == JoinComma(fnIn.items)

\* C14: behind a '#' header the data region is the L characters that follow
\* the header in the response (what comes after them is left out); with no
\* header it is the whole response.
C14_DataRegion ==
  (fnOut.done /\ Readable) =>
    LET follows == StripRight(Payload \o fnIn.tail)
        L == Len(Payload)
    IN /\ ~fnOut.blk.err /\ ~fnOut.pln.err
       /\ fnOut.blk.data = SubSeq(follows, 1, IF L < Len(follows) THEN L ELSE Len(follows))
       /\ fnOut.pln.data = Strip(Payload)

\* A block of ten or more characters was followed by more text.
C14_Witness ==
  /\ fnOut.done /\ ~fnOut.blk.err /\ fnIn.tail = <<",", "7">>
  /\ Len(Payload) >= 10 /\ fnOut.blk.data = Payload

\* C15: decoding the block of a sequence of amplitudes gives the sequence
\* back, decoding the bare payload gives the same, and empty tokens are
\* dropped in both.
C15_RoundTrip ==
  (fnOut.done /\ Readable) =>
    /\ ~fnOut.blk.err /\ fnOut.blk.vals = ItemValues(fnIn.items)
    /\ ~fnOut.pln.err /\ fnOut.pln.vals = fnOut.blk.vals

\* Two amplitudes with an empty and a blank token came back.
C15_Witness ==
  /\ fnOut.done /\ Len(fnOut.blk.vals) = 1 /\ Len(fnIn.items) = 3
  /\ fnOut.blk.vals[1] < 0
  /\ \E i \in 1..3 : fnIn.items[i].k = "empty"
  /\ \E i \in 1..3 : fnIn.items[i].k = "blank"

\* C16: a decoded count other than the declared one is no failure: the
\* amplitudes and the axis both have the decoded count as their length.
C16_CountMismatch ==
  (fnOut.done /\ Readable /\ Len(ItemValues(fnIn.items)) # ParseInt(fnIn.points).val) =>
    /\ ~fnOut.blk.err /\ fnOut.blk.warned
    /\ Len(fnOut.blk.vals) = Len(ItemValues(fnIn.items))
    /\ Len(fnOut.blk.freqs) = Len(ItemValues(fnIn.items))

\* Three points were declared and one was decoded.
C16_Witness ==
  /\ fnOut.done /\ ~fnOut.blk.err /\ fnOut.blk.warned
  /\ ParseInt(fnIn.points).val = 3 /\ Len(fnOut.blk.freqs) = 1

\* C17 as stated: with one amplitude or more the axis is strictly
\* increasing, evenly spaced, starts at start and ends at stop.
AxisStart == ParseFloat(fnIn.range[1]).val
AxisStop == ParseFloat(fnIn.range[2]).val
\* Fractions <<p, q>> with q > 0.
FracLess(x, y) == x[1] * y[2] < y[1] * x[2]
FracIs(x, n) == x[1] = n * x[2]
EvenlySpaced(ax) ==
  \A i \in 1..(Len(ax) - 2) :
    (ax[i + 1][1] * ax[i][2] - ax[i][1] * ax[i + 1][2]) * ax[i + 2][2] * ax[i + 1][2]
      = (ax[i + 2][1] * ax[i + 1][2] - ax[i + 1][1] * ax[i + 2][2]) * ax[i + 1][2] * ax[i][2]
Increasing(ax) == \A i \in 1..(Len(ax) - 1) : FracLess(ax[i], ax[i + 1])
C17_AxisStartToStop ==
  (fnOut.done /\ ~fnOut.blk.err /\ Len(fnOut.blk.vals) >= 1) =>
    LET ax == fnOut.blk.freqs IN
      /\ FracIs(ax[1], AxisStart) /\ FracIs(ax[Len(ax)], AxisStop)
      /\ EvenlySpaced(ax) /\ Increasing(ax)

\* C17 amended: with two amplitudes or more the axis is evenly spaced,
\* starts at start and ends at stop, and is strictly increasing exactly
\* when start < stop; with one amplitude the axis is the single entry start.
C17_AxisFromCount ==
  (fnOut.done /\ ~fnOut.blk.err /\ Len(fnOut.blk.vals) >= 1) =>
    LET ax == fnOut.blk.freqs IN
      /\ Len(ax) = Len(fnOut.blk.vals)
      /\ FracIs(ax[1], AxisStart)
      /\ Len(ax) >= 2 =>
           /\ FracIs(ax[Len(ax)], AxisStop)
           /\ EvenlySpaced(ax)
           /\ Increasing(ax) <=> (AxisStart < AxisStop)

\* An axis of three entries runs from start to stop.
C17_Witness ==
  /\ fnOut.done /\ ~fnOut.blk.err /\ Len(fnOut.blk.freqs) = 3
  /\ AxisStart < AxisStop /\ FracIs(fnOut.blk.freqs[3], AxisStop)

\* ------------------------------------------------------ range resolution
\* Entry texts with the number each stands for, in units of 1/20 MHz
\* (numeric FALSE: float() raises).
ResolveTable ==
  { [txt |-> <<"0">>, numeric |-> TRUE, num |-> 0],
    [txt |-> <<"3", "0", "0", "0">>, numeric |-> TRUE, num |-> 60000],
    [txt |-> <<"1", "0", "0", "0">>, numeric |-> TRUE, num |-> 20000],
    [txt |-> <<"2", "0", "0", "0">>, numeric |-> TRUE, num |-> 40000],
    [txt |-> <<"1", ",", "5">>, numeric |-> TRUE, num |-> 30],
    [txt |-> <<"-", "0", ".", "1">>, numeric |-> TRUE, num |-> 0 - 2],
    [txt |-> <<"x">>, numeric |-> FALSE, num |-> 0] }
ResolvePanels ==
  { [freq_mode |-> m, f1 |-> a.txt, f2 |-> b.txt] :
      m \in {"start_stop", "center_span"}, a \in ResolveTable, b \in ResolveTable }
EntryOf(txt) == CHOOSE e \in ResolveTable : e.txt = txt

InitResolve ==
  /\ Constructed
  /\ fnIn \in ResolvePanels
  /\ fnOut = [done |-> FALSE, err |-> FALSE, start |-> 0, stop |-> 0]

\* _get_freq_range_for_panel(panel) is called.
Resolve ==
  /\ ~fnOut.done
  /\ LET r == GetFreqRange(fnIn)
     IN fnOut' = [done |-> TRUE, err |-> r.err, start |-> r.start, stop |-> r.stop]
  /\ UNCHANGED <<rm, inst, timeout, connected, continuous, contBtn, sweepBtn,
                 max_vals, max_freqs, threads, queue, sa, ui, fnIn>>

SpecResolve == InitResolve /\ [][Resolve]_vars

\* C18: in start/stop mode the two fields come back as they are; in
\* center/span mode start = center - span/2 and stop = center + span/2 (so
\* stop - start = span and start + stop = 2 * center); the session state is
\* left as it was.
C18_Resolve ==
  /\ [](LET a == EntryOf(fnIn.f1)
            b == EntryOf(fnIn.f2)
        IN (fnOut.done /\ a.numeric /\ b.numeric) =>
             /\ ~fnOut.err
             /\ fnIn.freq_mode = "start_stop" =>
                  (fnOut.start = a.num /\ fnOut.stop = b.num)
             /\ fnIn.freq_mode = "center_span" =>
                  /\ 2 * fnOut.start = 2 * a.num - b.num
                  /\ 2 * fnOut.stop = 2 * a.num + b.num
                  /\ fnOut.stop - fnOut.start = b.num
                  /\ fnOut.start + fnOut.stop = 2 * a.num)
  /\ [][UNCHANGED <<rm, inst, timeout, connected, continuous, contBtn, sweepBtn,
                    max_vals, max_freqs, threads, queue, sa, ui>>]_vars

\* resolve(CenterSpan, center=1000, span=2000) = (0, 2000)
C18_Witness ==
  /\ fnOut.done /\ ~fnOut.err /\ fnIn.freq_mode = "center_span"
  /\ fnIn.f1 = <<"1", "0", "0", "0">> /\ fnIn.f2 = <<"2", "0", "0", "0">>
  /\ fnOut.start = 0 /\ fnOut.stop = 40000

\* ------------------------------------------------- connect and disconnect
\* C19: a connect that fails in _get_rm/open_resource or in the *IDN?
\* exchange shows an error box naming what raised and leaves the session
\* with no handle and the indicator off, while the box is shown and when it
\* is closed; the failure starts no thread and posts no callback, and a
\* handle only ever appears through the connect handler run from the main
\* loop.
C19_ConnectFailure ==
  /\ [][\A s \in Sessions :
          /\ (ConnectOpen(s) /\ inst'[s] = "none") =>
               /\ ui' = ErrorBox("open_failed", s)
               /\ ~connected'[s]
               /\ queue' = queue /\ threads' = threads
          /\ (ConnectIdentify(s) /\ ~connected'[s]) =>
               /\ ui' = ErrorBox("identify_failed", s)
               /\ inst'[s] = "none"
               /\ queue' = queue /\ threads' = threads
          /\ ConnectFailed(s) =>
               /\ ui' = Idle
               /\ inst'[s] = "none" /\ ~connected'[s]
               /\ queue' = queue /\ threads' = threads
          /\ (inst[s] = "none" /\ inst'[s] # "none") =>
               (ui = Idle /\ ui' = [st |-> "connecting", s |-> s])]_vars
  /\ [](ui.st \in Causes => (inst[ui.s] = "none" /\ ~connected[ui.s]))

\* The identification has failed on an opened handle and the box is shown.
C19_Witness ==
  /\ ui = ErrorBox("identify_failed", 1)
  /\ inst[1] = "none" /\ ~connected[1] /\ rm

\* C20: a disconnect leaves the running flag clear, no handle and the
\* indicator off, all in the one handler run, so the flag is never still set
\* once the handle is gone; a close that raises changes none of it.
C20_Disconnect ==
  [][\A s \in Sessions :
       Disconnect(s) =>
         /\ ~continuous'[s]
         /\ inst'[s] = "none"
         /\ ~connected'[s]
         /\ ui' = Idle]_vars

\* A session disconnected while its continuous loop was in an iteration.
C20_Witness ==
  /\ inst[1] = "none" /\ ~connected[1] /\ ~continuous[1] /\ ~contBtn[1]
  /\ ui = Idle
  /\ \E i \in Slots : threads[1][i].kind = "loop" /\ threads[1][i].halt = 1

\* ------------------------------------------ transport closed under a loop
\* C21: a loop whose iteration was in flight when the session's handle was
\* closed (disconnect, network reset) leaves that iteration through the
\* failure handler, and when the loop exits the session has no handle and
\* its running flag is false.
C21_ClosedInFlight ==
  [][\A s \in Sessions, i \in Slots :
       (IsLoop(s, i) /\ threads[s][i].cut /\ ui'.st # "destroyed") =>
          /\ (threads[s][i].pc = "mid" /\ threads'[s][i].pc # "mid") =>
               threads'[s][i].pc = "fail"
          /\ threads'[s][i].kind = "none" =>
               (inst'[s] = "none" /\ ~continuous'[s])]_vars

\* ------------------------------------------------- sweep time and the wait
\* Durations are in units of 1/20 s, waits in units of 1/200 s.
DefaultSweepTime == 30
MinWait == 300
SingleFactor == 11
LoopFactor == 12

\* float(inst.read()): float() passes over the white space around the number.
SweepTimeOf(reply) == ParseFloat(Strip(reply))

\* The outcome q of the :SWE:TIME? exchange: write_ok, and reply holding the
\* text read (<<>> when the read raised).
\* _single_sweep: the write, the read and float() are in one try block whose
\* handler sets st = 1.5.
SingleSweepTime(q) ==
  IF ~q.write_ok \/ q.reply = <<>> \/ SweepTimeOf(q.reply[1]).err
  THEN [raised |-> FALSE, st |-> DefaultSweepTime]
  ELSE [raised |-> FALSE, st |-> SweepTimeOf(q.reply[1]).val]

\* do_continuous: the write stands in the iteration's try block; only the
\* read and float() are in the try block whose handler sets sweep_time = 1.5.
LoopSweepTime(q) ==
  IF ~q.write_ok THEN [raised |-> TRUE, st |-> 0]
  ELSE IF q.reply = <<>> \/ SweepTimeOf(q.reply[1]).err
  THEN [raised |-> FALSE, st |-> DefaultSweepTime]
  ELSE [raised |-> FALSE, st |-> SweepTimeOf(q.reply[1]).val]

\* A wait without the floor of 1.5 s.
WaitNoFloor(st, factor) == st * factor

\* time.sleep(max(1.5, st * 1.1)) and time.sleep(max(1.5, sweep_time * 1.2)),
\* factor being ten times the multiplier.
Wait(st, factor) == MaxOf(MinWait, st * factor)

\* Replies to :SWE:TIME? with the duration each stands for (numeric FALSE:
\* float() raises).
ReplyTable ==
  { [txt |-> <<"0">>, numeric |-> TRUE, num |-> 0],
    [txt |-> <<"1">>, numeric |-> TRUE, num |-> 20],
    [txt |-> <<"1", ".", "2">>, numeric |-> TRUE, num |-> 24],
    [txt |-> <<"1", ".", "3">>, numeric |-> TRUE, num |-> 26],
    [txt |-> <<"1", ".", "4">>, numeric |-> TRUE, num |-> 28],
    [txt |-> <<"1", ".", "5">>, numeric |-> TRUE, num |-> 30],
    [txt |-> <<"2", " ">>, numeric |-> TRUE, num |-> 40],
    [txt |-> <<" ", "1", "0">>, numeric |-> TRUE, num |-> 200],
    [txt |-> <<"-", "1">>, numeric |-> TRUE, num |-> 0 - 20],
    [txt |-> <<"x">>, numeric |-> FALSE, num |-> 0],
    [txt |-> <<"1", ".", ".">>, numeric |-> FALSE, num |-> 0],
    [txt |-> <<"1", " ", "0">>, numeric |-> FALSE, num |-> 0],
    [txt |-> <<>>, numeric |-> FALSE, num |-> 0] }
ReplyOf(txt) == CHOOSE e \in ReplyTable : e.txt = txt

SweepTimeInputs ==
  { [mode |-> m, write_ok |-> w, reply |-> r] :
      m \in {"single", "loop"}, w \in BOOLEAN,
      r \in {<<>>} \cup { <<e.txt>> : e \in ReplyTable } }

InitSweepTime ==
  /\ Constructed
  /\ fnIn \in SweepTimeInputs
  /\ fnOut = [done |-> FALSE, raised |-> FALSE, st |-> 0, wait |-> 0, next |-> "none"]

\* _single_sweep from the :SWE:TIME? write on; do_sweep then reads the trace.
SingleSweepWait ==
  /\ ~fnOut.done /\ fnIn.mode = "single"
  /\ LET r == SingleSweepTime(fnIn)
     IN fnOut' = [done |-> TRUE, raised |-> r.raised, st |-> r.st,
                  wait |-> Wait(r.st, SingleFactor), next |-> "read_trace"]
  /\ UNCHANGED <<rm, inst, timeout, connected, continuous, contBtn, sweepBtn,
                 max_vals, max_freqs, threads, queue, sa, ui, fnIn>>

\* One iteration of do_continuous from the :SWE:TIME? write to the trace
\* read, or to the break of the iteration's handler.
LoopSweepWait ==
  /\ ~fnOut.done /\ fnIn.mode = "loop"
  /\ LET r == LoopSweepTime(fnIn)
     IN fnOut' = IF r.raised
                 THEN [done |-> TRUE, raised |-> TRUE, st |-> 0, wait |-> 0,
                       next |-> "break"]
                 ELSE [done |-> TRUE, raised |-> FALSE, st |-> r.st,
                       wait |-> Wait(r.st, LoopFactor), next |-> "read_trace"]
  /\ UNCHANGED <<rm, inst, timeout, connected, continuous, contBtn, sweepBtn,
                 max_vals, max_freqs, threads, queue, sa, ui, fnIn>>

SpecSweepTime == InitSweepTime /\ [][SingleSweepWait \/ LoopSweepWait]_vars

\* The query gave no number: its write or its read raised, or float() did.
QueryFailed ==
  \/ ~fnIn.write_ok
  \/ fnIn.reply = <<>>
  \/ ~ReplyOf(fnIn.reply[1]).numeric

\* C22: when the sweep-time query fails or its reply is not a number, the
\* duration is the 1.5 s default, nothing is raised, and the trace read
\* follows (single sweep) or the loop goes on (continuous).
C22_SweepTimeFallback ==
  (fnOut.done /\ QueryFailed) =>
     /\ ~fnOut.raised
     /\ fnOut.st = 30
     /\ fnOut.next = "read_trace"

\* The duration the wait is computed from, in 1/20 s.
Duration ==
  IF QueryFailed THEN DefaultSweepTime ELSE ReplyOf(fnIn.reply[1]).num

\* C23: the wait is max(1.5 s, 1.1 x duration) in a single sweep and
\* max(1.5 s, 1.2 x duration) in a continuous iteration; for a non-negative
\* duration it is at least 1.5 s and at least the duration.
C23_WaitCoversSweep ==
  (fnOut.done /\ ~fnOut.raised) =>
     /\ fnIn.mode = "single" =>
          /\ fnOut.wait >= 300 /\ fnOut.wait >= 11 * Duration
          /\ fnOut.wait \in {300, 11 * Duration}
     /\ fnIn.mode = "loop" =>
          /\ fnOut.wait >= 300 /\ fnOut.wait >= 12 * Duration
          /\ fnOut.wait \in {300, 12 * Duration}
     /\ Duration >= 0 => fnOut.wait >= 10 * Duration

\* A 10 s sweep in continuous mode is waited for 12 s.
C23_Witness ==
  /\ fnOut.done /\ ~fnOut.raised /\ fnIn.mode = "loop"
  /\ fnIn.reply = << <<" ", "1", "0">> >>
  /\ fnOut.wait = 2400

\* --------------------------------------- do_sweep as a run of operations
\* An operation that reached the instrument, or the sleep before the read.
WriteOp(c, a) == [op |-> "write", cmd |-> c, arg |-> a]
ReadOp(c) == [op |-> "read", cmd |-> c, arg |-> 0]
WaitOp(w) == [op |-> "wait", cmd |-> "sleep", arg |-> w]
NoFail == [op |-> "none", cmd |-> "", arg |-> 0]

RECURSIVE ConfigOps(_)
ConfigOps(cmds) ==
  IF cmds = <<>> THEN <<>>
  ELSE <<WriteOp(Head(cmds).cmd, Head(cmds).arg)>> \o ConfigOps(Tail(cmds))

\* The operations of ops that complete when operation f raises.
RECURSIVE Prefix(_, _)
Prefix(ops, f) ==
  IF ops = <<>> \/ Head(ops) = f THEN <<>>
  ELSE <<Head(ops)>> \o Prefix(Tail(ops), f)
Raises(ops, f) == \E j \in DOMAIN ops : ops[j] = f

\* The :SWE:TIME? exchange as far as it got.
QueryOps(q) ==
  IF ~q.write_ok THEN <<>>
  ELSE IF q.reply = <<>> THEN <<WriteOp(":SWE:TIME?", 0)>>
  ELSE <<WriteOp(":SWE:TIME?", 0), ReadOp(":SWE:TIME?")>>

\* A single sweep that goes to the read without sleeping.
SingleSweepNoWait(x) ==
  IF x.fail = WriteOp(":INIT:CONT OFF", 0) THEN [raised |-> TRUE, log |-> <<>>]
  ELSE IF x.fail = WriteOp(":INIT", 0)
  THEN [raised |-> TRUE, log |-> <<WriteOp(":INIT:CONT OFF", 0)>>]
  ELSE [raised |-> FALSE,
        log |-> <<WriteOp(":INIT:CONT OFF", 0), WriteOp(":INIT", 0)>>
                \o QueryOps(x.q)]

\* _single_sweep(inst) when operation x.fail raises and the sweep-time
\* exchange goes as x.q.
SingleSweep(x) ==
  IF x.fail = WriteOp(":INIT:CONT OFF", 0) THEN [raised |-> TRUE, log |-> <<>>]
  ELSE IF x.fail = WriteOp(":INIT", 0)
  THEN [raised |-> TRUE, log |-> <<WriteOp(":INIT:CONT OFF", 0)>>]
  ELSE [raised |-> FALSE,
        log |-> <<WriteOp(":INIT:CONT OFF", 0), WriteOp(":INIT", 0)>>
                \o QueryOps(x.q)
                \o <<WaitOp(Wait(SingleSweepTime(x.q).st, SingleFactor))>>]

\* The instrument operations of _read_trace_ascii_block in program order.
ReadTraceOps ==
  << WriteOp(":SWE:POIN?", 0), ReadOp(":SWE:POIN?"),
     WriteOp(":FREQ:STAR?", 0), ReadOp(":FREQ:STAR?"),
     WriteOp(":FREQ:STOP?", 0), ReadOp(":FREQ:STOP?"),
     WriteOp(":FORM:TRAC:DATA ASCii", 0),
     WriteOp(":TRAC:DATA? TRACE1", 0), ReadOp(":TRAC:DATA? TRACE1") >>

\* A trace read that returns what it has when an operation raises.
ReadTraceRunSwallows(x) ==
  [raised |-> FALSE, log |-> Prefix(ReadTraceOps, x.fail)]

\* _read_trace_ascii_block(inst) when operation x.fail raises.
ReadTraceRun(x) ==
  [raised |-> Raises(ReadTraceOps, x.fail), log |-> Prefix(ReadTraceOps, x.fail)]

\* The hand-offs of do_sweep besides the trace and the busy state: the
\* status line and the error box.
MessageEv(s, is_error) ==
  [k |-> "message", s |-> s, on |-> is_error, freqs |-> <<>>, vals |-> <<>>,
   stale |-> FALSE]
ErrorEv(s) ==
  [k |-> "error", s |-> s, on |-> TRUE, freqs |-> <<>>, vals |-> <<>>, stale |-> FALSE]

\* The handler's hand-offs; sweep2 posts the two panel updates in the other
\* order and the error box with after(100).
SweepFailed(s) ==
  IF s = 1 THEN <<MessageEv(s, TRUE), BusyEv(s, FALSE), ErrorEv(s)>>
  ELSE <<BusyEv(s, FALSE), MessageEv(s, TRUE), ErrorEv(s)>>
SweepCompleted(s) ==
  IF s = 1 THEN <<MessageEv(s, FALSE), BusyEv(s, FALSE)>>
  ELSE <<BusyEv(s, FALSE), MessageEv(s, FALSE)>>

\* do_sweep of session s: log is what reached the instrument, posts the
\* callbacks handed to self.after in order, error the operation whose
\* exception the handler reports (<<>>: none).
DoSweep(s, x) ==
  LET r == GetFreqRange(x.panel) IN
    IF r.err
    THEN [done |-> TRUE, log |-> <<>>, posts |-> SweepFailed(s),
          error |-> <<WriteOp("float", 0)>>]
    ELSE
      LET cfg    == ConfigOps(ConfigureSa(ConfigCommands(PanelConfig(r)), x.failAt))
          single == SingleSweep(x)
          read   == ReadTraceRun(x)
          st     == SaWrites(sa[s], ConfigureSa(ConfigCommands(PanelConfig(r)),
                                                x.failAt))
          axis   == Linspace(st.start, st.stop, Len(x.vals))
      IN IF single.raised
         THEN [done |-> TRUE, log |-> cfg \o single.log,
               posts |-> <<BusyEv(s, TRUE)>> \o SweepFailed(s),
               error |-> <<x.fail>>]
         ELSE IF read.raised
         THEN [done |-> TRUE, log |-> cfg \o single.log \o read.log,
               posts |-> <<BusyEv(s, TRUE)>> \o SweepFailed(s),
               error |-> <<x.fail>>]
         ELSE [done |-> TRUE, log |-> cfg \o single.log \o read.log,
               posts |-> <<BusyEv(s, TRUE), TraceEv(s, axis, x.vals)>>
                         \o SweepCompleted(s),
               error |-> <<>>]

\* The operations of a single sweep whose failure is not swallowed.
SweepFailures ==
  {NoFail, WriteOp(":INIT:CONT OFF", 0), WriteOp(":INIT", 0)}
    \cup {ReadTraceOps[j] : j \in DOMAIN ReadTraceOps}
SweepQueries ==
  { [write_ok |-> w, reply |-> r] :
      w \in BOOLEAN, r \in {<<>>, << <<"2", " ">> >>, << <<"x">> >>} }
SweepInputs ==
  { [s |-> s, panel |-> p, failAt |-> a, q |-> q, fail |-> f, vals |-> v] :
      s \in Sessions, p \in PanelInputs, a \in FailPoints, q \in SweepQueries,
      f \in SweepFailures, v \in Traces }

InitSweep ==
  /\ Constructed
  /\ fnIn \in SweepInputs
  /\ fnOut = [done |-> FALSE, log |-> <<>>, posts |-> <<>>, error |-> <<>>]

\* do_sweep of sweep1 or sweep2 runs to its end.
RunSweep ==
  /\ ~fnOut.done
  /\ fnOut' = DoSweep(fnIn.s, fnIn)
  /\ UNCHANGED <<rm, inst, timeout, connected, continuous, contBtn, sweepBtn,
                 max_vals, max_freqs, threads, queue, sa, ui, fnIn>>

SpecSweep == InitSweep /\ [][RunSweep]_vars

\* Positions in the log of the operations of one kind.
At(o, c) == {j \in DOMAIN fnOut.log : fnOut.log[j].op = o /\ fnOut.log[j].cmd = c}
Precedes(A, B) == \A j \in A, k \in B : j < k
Stages ==
  << At("write", ":BAND:RES") \cup At("write", ":BAND:RES:AUTO ON")
       \cup At("write", ":FREQ:STAR") \cup At("write", ":FREQ:STOP")
       \cup At("write", ":FREQ:CENT") \cup At("write", ":FREQ:SPAN")
       \cup At("write", ":SWE:POIN") \cup At("write", ":BAND:VID")
       \cup At("write", ":DET POS"),
     At("write", ":INIT:CONT OFF"),
     At("write", ":INIT"),
     At("write", ":SWE:TIME?") \cup At("read", ":SWE:TIME?"),
     At("wait", "sleep"),
     At("write", ":SWE:POIN?") \cup At("write", ":FREQ:STAR?")
       \cup At("write", ":FREQ:STOP?") \cup At("write", ":TRAC:DATA? TRACE1")
       \cup At("read", ":TRAC:DATA? TRACE1") >>

\* C24: in the log of a single sweep the configuration writes come first,
\* then the non-continuous trigger mode, the sweep trigger, the sweep-time
\* query, the wait and the trace read, each stage once; a trace-data query
\* in the log has the trigger and the wait before it.  (The trace-format
\* write is issued by the configuration and again by the trace read; it
\* belongs to both stages and is left out of Stages.)
C24_SweepOrder ==
  fnOut.done =>
    /\ \A a, b \in 1..6 : a < b => Precedes(Stages[a], Stages[b])
    /\ \A a \in {2, 3, 5} : Cardinality(Stages[a]) <= 1
    /\ At("write", ":TRAC:DATA? TRACE1") # {} =>
         /\ Stages[2] # {} /\ Stages[3] # {} /\ Stages[5] # {}
         /\ Cardinality(At("write", ":TRAC:DATA? TRACE1")) = 1

\* A sweep with nothing failing: nine configuration writes, five operations
\* of the single sweep, nine of the trace read.
C24_Witness ==
  /\ fnOut.done /\ fnOut.error = <<>> /\ fnIn.failAt = 0
  /\ Len(fnOut.log) = 23
  /\ fnOut.log[10].cmd = ":INIT:CONT OFF" /\ fnOut.log[11].cmd = ":INIT"
  /\ fnOut.log[14].op = "wait"
  /\ fnOut.log[22] = WriteOp(":TRAC:DATA? TRACE1", 0)

\* The peak hold of session s after the posted callbacks have run on the
\* held pair h.
HeldAfter(s, h, posts) ==
  LET d == Callbacks([max_vals |-> [o \in Sessions |-> h.vals],
                      max_freqs |-> [o \in Sessions |-> h.freqs],
                      sweepBtn |-> sweepBtn, contBtn |-> contBtn], posts)
  IN [vals |-> d.max_vals[s], freqs |-> d.max_freqs[s]]
HeldPairs ==
  { [vals |-> <<>>, freqs |-> <<>>],
    [vals |-> << <<1>> >>, freqs |-> << <<<<0, 1>>>> >>] }

\* C25: when the trigger-mode write, the trigger write or an operation of
\* the trace read raises, the sweep posts the error report for that
\* operation, posts no trace, leaves the peak hold as it is, and issues
\* nothing further: the operation that raised is not tried again.
C25_SweepFailure ==
  (fnOut.done /\ fnIn.fail # NoFail /\ ~GetFreqRange(fnIn.panel).err) =>
    /\ fnOut.error = <<fnIn.fail>>
    /\ \E j \in DOMAIN fnOut.posts : fnOut.posts[j].k = "error"
    /\ \A j \in DOMAIN fnOut.posts : fnOut.posts[j].k # "trace"
    /\ \A h \in HeldPairs : HeldAfter(fnIn.s, h, fnOut.posts) = h
    /\ IF fnIn.fail = WriteOp(":FORM:TRAC:DATA ASCii", 0)
       THEN Cardinality(At("write", ":FORM:TRAC:DATA ASCii")) <= 1
       ELSE At(fnIn.fail.op, fnIn.fail.cmd) = {}
    /\ Cardinality(At("write", ":INIT")) <= 1
    /\ At("read", ":TRAC:DATA? TRACE1") = {}
    /\ fnIn.fail # ReadOp(":TRAC:DATA? TRACE1") =>
         At("write", ":TRAC:DATA? TRACE1") = {}

\* The read of the trace data raises after everything before it went through.
C25_Witness ==
  /\ fnOut.done /\ fnIn.s = 1 /\ fnIn.fail = ReadOp(":TRAC:DATA? TRACE1")
  /\ fnIn.failAt = 0 /\ fnIn.q.write_ok /\ fnIn.q.reply # <<>>
  /\ Len(fnOut.log) = 22
  /\ fnOut.posts = <<BusyEv(1, TRUE)>> \o SweepFailed(1)

\* ------------------------------------------------ order of configuration
\* The commands of a configuration in the order asked for, the first being
\* the resolution bandwidth in one of its two forms.
ApplyOrder(auto) ==
  << IF auto THEN ":BAND:RES:AUTO ON" ELSE ":BAND:RES",
     ":FREQ:STAR", ":FREQ:STOP", ":FREQ:CENT", ":FREQ:SPAN", ":SWE:POIN",
     ":BAND:VID", ":DET POS", ":FORM:TRAC:DATA ASCii" >>
ApplyQueries ==
  { ":SWE:POIN?", ":FREQ:STAR?", ":FREQ:STOP?", ":FREQ:CENT?", ":FREQ:SPAN?",
    ":BAND:RES?", ":BAND:VID?", ":DET?", ":FORM:TRAC:DATA?", ":SWE:TIME?",
    ":TRAC:DATA? TRACE1", "*IDN?", "*OPC?" }

\* C26: the writes of a configuration are, in this order, resolution
\* bandwidth (auto or the value), start, stop, center = (start + stop) / 2,
\* span = stop - start, points, video bandwidth, detector, trace format
\* (cut short at a write that raises), and none of them is a query.
C26_ApplyOrder ==
  (fnOut.done /\ ~fnOut.raised) =>
    LET w == fnOut.writes
        n == IF fnIn.failAt = 0 THEN 9 ELSE fnIn.failAt - 1
    IN /\ Len(w) = n
       /\ \A j \in 1..n : w[j].cmd = ApplyOrder(fnIn.bw_res = <<>>)[j]
       /\ \A j \in 1..n : w[j].cmd \notin ApplyQueries
       /\ (n >= 1 /\ fnIn.bw_res = <<"1", "0", "k">>) => w[1].arg = 10000
       /\ (n >= 1 /\ fnIn.bw_res = <<"1", "M">>) => w[1].arg = 1000000
       /\ n >= 4 => 2 * w[4].arg = w[2].arg + w[3].arg
       /\ n >= 5 => w[5].arg = w[3].arg - w[2].arg
       /\ n >= 6 => w[6].arg = 3001

\* A whole configuration with a numeric resolution bandwidth, 0 to 10 MHz.
C26_Witness ==
  /\ fnOut.done /\ ~fnOut.raised /\ fnIn.failAt = 0
  /\ fnIn.bw_res = <<"1", "0", "k">> /\ fnIn.panel.freq_mode = "start_stop"
  /\ Len(fnOut.writes) = 9
  /\ fnOut.writes[2].arg = 0 /\ fnOut.writes[3].arg = 10000000
  /\ fnOut.writes[4].arg = 5000000 /\ fnOut.writes[5].arg = 10000000

\* ------------------------------------------------- one session, the other
\* Session a has an operation under way: its connect handler is between
\* open and identification, or one of its sweep or loop threads is alive.
Connecting(a) == ui = [st |-> "connecting", s |-> a]
Busy(a) == Connecting(a) \/ AliveIn(a) > 0

\* C27: while one session is connecting, sweeping or looping, a connect of
\* the other session (when it holds no handle) and a sweep of the other
\* session (when it holds one and its sweep button is enabled) can start.
C27_PeerNotBlocked ==
  \A a \in Sessions :
    Busy(a) =>
      /\ inst[Other(a)] = "none" => ENABLED ConnectOpen(Other(a))
      /\ (inst[Other(a)] = "open" /\ ~sweepBtn[Other(a)] /\ FreeSlots(Other(a)) # {})
           => ENABLED SweepRequest(Other(a))

\* ------------------------------------------------------------- hand-offs
\* A sweep or loop thread of session s has taken a step: a started thread
\* is at another place (closing ends all threads with the process).
WorkerStep(s) ==
  /\ ui'.st # "destroyed"
  /\ \E i \in Slots :
       threads[s][i].kind # "none" /\ threads'[s][i].pc # threads[s][i].pc

\* C28: a step of a worker thread leaves the peak hold and the panel state
\* as they are and at most appends a callback of its own session to the
\* queue; a trace read by a worker is in the queue after the step; the peak
\* hold of a session takes a new value only when the main thread runs the
\* trace callback at the head of the queue (or, closing, the whole queue in
\* order), one callback at a time.
C28_HandOff ==
  [][\A s \in Sessions :
       /\ WorkerStep(s) =>
            /\ UNCHANGED <<max_vals, max_freqs, sweepBtn, contBtn>>
            /\ \/ queue' = queue
               \/ /\ Len(queue') = Len(queue) + 1
                  /\ SubSeq(queue', 1, Len(queue)) = queue
                  /\ queue'[Len(queue')].s = s
       /\ (\E i \in Slots : /\ threads[s][i].pc \in {"mid", "read"}
                            /\ threads'[s][i].pc \in {"top", "done"}) =>
            (queue' # <<>> /\ queue'[Len(queue')].k = "trace")
       /\ (max_vals'[s] # max_vals[s] /\ max_vals'[s] # <<>>) =>
            \/ /\ queue # <<>>
               /\ Head(queue).k = "trace" /\ Head(queue).s = s
               /\ queue' = Tail(queue)
               /\ threads' = threads
               /\ max_vals'[s] =
                    PeakUpdate([vals |-> max_vals[s], freqs |-> max_freqs[s]],
                               Head(queue).freqs, Head(queue).vals).vals
            \/ ui'.st = "destroyed"]_vars

\* A loop has handed a trace over and gone back to its while test; the
\* callback has not run yet and nothing is held.
C28_Witness ==
  /\ queue # <<>> /\ Head(queue).k = "trace" /\ Head(queue).s = 1
  /\ max_vals[1] = <<>>
  /\ \E i \in Slots : IsLoop(1, i) /\ threads[1][i].pc = "top"

\* ---------------------------------------------------------------- teardown
\* The resources a teardown closes, in program order: inst1, inst2, rm.
\* x: [path, held, fails, continuous]; held[j]: the reference is not None,
\* fails[j]: its close() raises.
Resources == <<"inst1", "inst2", "rm">>

\* A teardown with one try block around all three closes.
TriedOneTry(x, j) ==
  x.held[j] /\ \A k \in 1..(j - 1) : ~(x.held[k] /\ x.fails[k])

\* close() is called on resource j: each resource has a try block of its own.
Tried(x, j) == x.held[j]

\* The reference is still held afterwards: _reset_network clears it inside
\* the try block, after the close; _on_closing clears it after the block.
Kept(x, j) == x.path = "reset" /\ x.held[j] /\ x.fails[j]

\* _reset_network and _on_closing as far as flags and resources go.
Teardown(x) ==
  [done |-> TRUE, raised |-> FALSE,
   continuous |-> [s \in Sessions |-> FALSE],
   tried |-> [j \in 1..3 |-> Tried(x, j)],
   kept |-> [j \in 1..3 |-> Kept(x, j)]]

TeardownInputs ==
  [path : {"reset", "closing"}, held : [1..3 -> BOOLEAN], fails : [1..3 -> BOOLEAN],
   continuous : [Sessions -> BOOLEAN]]

InitTeardown ==
  /\ Constructed
  /\ fnIn \in TeardownInputs
  /\ fnOut = [done |-> FALSE, raised |-> FALSE, continuous |-> fnIn.continuous,
              tried |-> [j \in 1..3 |-> FALSE], kept |-> fnIn.held]

RunTeardown ==
  /\ ~fnOut.done
  /\ fnOut' = Teardown(fnIn)
  /\ UNCHANGED <<rm, inst, timeout, connected, continuous, contBtn, sweepBtn,
                 max_vals, max_freqs, threads, queue, sa, ui, fnIn>>

SpecTeardown == InitTeardown /\ [][RunTeardown]_vars

\* C29: after a network reset or a window close both running flags are
\* false, close() has been called on every resource that was held (both
\* handles and the resource manager) whichever of the closes raise, and no
\* exception leaves the teardown.
C29_Teardown ==
  fnOut.done =>
    /\ \A s \in Sessions : ~fnOut.continuous[s]
    /\ ~fnOut.raised
    /\ \A j \in 1..3 : fnIn.held[j] => fnOut.tried[j]
    /\ \A j \in 1..3 : ~fnIn.held[j] => ~fnOut.tried[j]

\* A network reset with everything held and both loops running, in which
\* the close of the first handle raises.
C29_Witness ==
  /\ fnOut.done /\ fnIn.path = "reset"
  /\ \A j \in 1..3 : fnIn.held[j]
  /\ fnIn.fails[1] /\ fnIn.continuous[1] /\ fnIn.continuous[2]
  /\ fnOut.tried[2] /\ fnOut.tried[3] /\ fnOut.kept[1]

\* ------------------------------------ do_continuous as a run of operations
\* x: [panel, later, failAt, n, failIter, fail, q].  panel is what the range
\* fields hold when the thread starts, later what they hold while the loop
\* runs; the while test passes n times; operation fail raises in iteration
\* failIter (in the setup for failIter = 0); the sweep-time exchange goes as
\* q in every iteration.
\* An iteration that configures the instrument again before it triggers.
LoopIterationReconfigures(x, j) ==
  LET r    == GetFreqRange(x.later)
      cfg  == IF r.err THEN <<>>
              ELSE ConfigOps(ConfigureSa(ConfigCommands(PanelConfig(r)), x.failAt))
      head == cfg \o <<WriteOp(":INIT", 0)>> \o QueryOps(x.q)
                \o <<WaitOp(Wait(LoopSweepTime(x.q).st, LoopFactor))>>
  IN [raised |-> FALSE, log |-> head \o ReadTraceOps]

\* One pass through the body of the while loop.
LoopIteration(x, j) ==
  LET hit  == j = x.failIter
      head == <<WriteOp(":INIT", 0)>> \o QueryOps(x.q)
                \o <<WaitOp(Wait(LoopSweepTime(x.q).st, LoopFactor))>>
  IN IF hit /\ x.fail = WriteOp(":INIT", 0) THEN [raised |-> TRUE, log |-> <<>>]
     ELSE IF LoopSweepTime(x.q).raised
     THEN [raised |-> TRUE, log |-> <<WriteOp(":INIT", 0)>>]
     ELSE IF hit /\ Raises(ReadTraceOps, x.fail)
     THEN [raised |-> TRUE, log |-> head \o Prefix(ReadTraceOps, x.fail)]
     ELSE [raised |-> FALSE, log |-> head \o ReadTraceOps]

\* The iterations from number j on: the handler of an iteration breaks.
RECURSIVE Iterations(_, _)
Iterations(x, j) ==
  IF j > x.n THEN <<>>
  ELSE LET it == LoopIteration(x, j)
       IN IF it.raised THEN <<it.log>> ELSE <<it.log>> \o Iterations(x, j + 1)

\* do_continuous: setup is what reached the instrument before the while
\* loop, iters the operations of each iteration, exit the write of the
\* finally block.
DoContinuous(x) ==
  LET r == GetFreqRange(x.panel) IN
    IF r.err
    THEN [done |-> TRUE, raised |-> TRUE, setup |-> <<>>, iters |-> <<>>,
          exit |-> <<WriteOp(":INIT:CONT OFF", 0)>>]
    ELSE
      LET cfg == ConfigOps(ConfigureSa(ConfigCommands(PanelConfig(r)), x.failAt))
      IN IF x.failIter = 0 /\ x.fail = WriteOp(":INIT:CONT OFF", 0)
         THEN [done |-> TRUE, raised |-> TRUE, setup |-> cfg, iters |-> <<>>,
               exit |-> <<>>]
         ELSE [done |-> TRUE, raised |-> FALSE,
               setup |-> cfg \o <<WriteOp(":INIT:CONT OFF", 0)>>,
               iters |-> Iterations(x, 1),
               exit |-> <<WriteOp(":INIT:CONT OFF", 0)>>]

LoopPanels ==
  { [freq_mode |-> "start_stop",  f1 |-> <<"0">>, f2 |-> <<"2">>],
    [freq_mode |-> "start_stop",  f1 |-> <<"0">>, f2 |-> <<"1", "0">>],
    [freq_mode |-> "center_span", f1 |-> <<"1">>, f2 |-> <<"x">>] }
LoopFailPoints == {0, 1, 3}
LoopQueries ==
  { [write_ok |-> TRUE, reply |-> << <<"2", " ">> >>],
    [write_ok |-> TRUE, reply |-> <<>>],
    [write_ok |-> FALSE, reply |-> <<>>] }
LoopFailures ==
  { [failIter |-> 0, fail |-> NoFail],
    [failIter |-> 0, fail |-> WriteOp(":INIT:CONT OFF", 0)] }
    \cup { [failIter |-> j, fail |-> f] :
             j \in 1..MaxIter,
             f \in {WriteOp(":INIT", 0)} \cup {ReadTraceOps[k] : k \in DOMAIN ReadTraceOps} }
LoopInputs ==
  { [panel |-> p, later |-> l, failAt |-> a, n |-> n, failIter |-> f.failIter,
     fail |-> f.fail, q |-> q] :
      p \in LoopPanels, l \in LoopPanels, a \in LoopFailPoints, n \in 0..MaxIter,
      f \in LoopFailures, q \in LoopQueries }

InitLoop ==
  /\ Constructed
  /\ fnIn \in LoopInputs
  /\ fnOut = [done |-> FALSE, raised |-> FALSE, setup |-> <<>>, iters |-> <<>>,
              exit |-> <<>>]

\* A do_continuous thread runs to its end.
RunLoop ==
  /\ ~fnOut.done
  /\ fnOut' = DoContinuous(fnIn)
  /\ UNCHANGED <<rm, inst, timeout, connected, continuous, contBtn, sweepBtn,
                 max_vals, max_freqs, threads, queue, sa, ui, fnIn>>

SpecLoop == InitLoop /\ [][RunLoop]_vars

\* The commands of a log, and how often a command occurs in it.
Commands(log) == [j \in DOMAIN log |-> log[j].cmd]
Count(log, c) == Cardinality({j \in DOMAIN log : log[j].cmd = c})
IsPrefix(a, b) == Len(a) <= Len(b) /\ a = SubSeq(b, 1, Len(a))
SetupCommands ==
  { ":BAND:RES", ":BAND:RES:AUTO ON", ":FREQ:STAR", ":FREQ:STOP", ":FREQ:CENT",
    ":FREQ:SPAN", ":SWE:POIN", ":BAND:VID", ":DET POS", ":INIT:CONT OFF" }
\* Trigger, sweep-time query, wait and trace read, with and without the read
\* of the sweep time (a read that raises is passed over).
IterationCommands(with_read) ==
  <<":INIT", ":SWE:TIME?">> \o (IF with_read THEN <<":SWE:TIME?">> ELSE <<>>)
    \o << "sleep", ":SWE:POIN?", ":SWE:POIN?", ":FREQ:STAR?", ":FREQ:STAR?",
          ":FREQ:STOP?", ":FREQ:STOP?", ":FORM:TRAC:DATA ASCii",
          ":TRAC:DATA? TRACE1", ":TRAC:DATA? TRACE1" >>
StopHz(panel) == IF panel.f2 = <<"2">> THEN 2000000 ELSE 10000000

C31_EarlierExitKeepsFlag ==
  [][\A s \in Sessions : \A i \in Slots :
       (/\ IsLoop(s, i) /\ threads[s][i].late /\ continuous[s]
        /\ threads'[s][i].kind = "none" /\ ui'.st # "destroyed")
         => continuous'[s]]_vars

\* C32: with no hand-off pending, the continuous indicator of every session
\* shows active exactly when the session's running flag is true.
C32_IndicatorMatchesFlag ==
  (queue = <<>> /\ ui.st # "destroyed") =>
    \A s \in Sessions : contBtn[s] = continuous[s]

\* ------------------------------------------------------ after a reset
\* C33: a network reset leaves no handle and no resource manager held, both
\* running flags false, both peak holds empty and both indicators at "Not
\* Connected", whichever close raised; with no handle held the next connect
\* request of either session takes the branch that opens a connection.
\* (Steps that a disconnect would make as well are left aside.)
C33_ResetLeavesNothingHeld ==
  [][(ResetNetwork /\ ~\E s \in Sessions : Disconnect(s)) =>
       /\ \A s \in Sessions :
            /\ inst'[s] = "none"
            /\ ~continuous'[s]
            /\ max_vals'[s] = <<>> /\ max_freqs'[s] = <<>>
            /\ ~connected'[s]
       /\ ~rm']_vars

\* C34: a trace hand-off that was pending when its session was disconnected
\* or the network was reset leaves the peak hold of the session empty when
\* it is delivered.
C34_StaleTraceDropped ==
  [][(/\ queue # <<>> /\ queue' = Tail(queue)
      /\ Head(queue).k = "trace" /\ Head(queue).stale
      /\ max_vals[Head(queue).s] = <<>> /\ ui'.st # "destroyed")
       => max_vals'[Head(queue).s] = <<>>]_vars

\* ------------------------------------------------------- busy signalling
SweepsOf(s) == {i \in Slots : IsSweep(s, i)}
BusyPending(s) == \E j \in DOMAIN queue : queue[j].k = "busy" /\ queue[j].s = s

\* C35: the last hand-off of every single-sweep worker, however it ends, is
\* busy-off; and a session whose single-sweep workers have all ended and
\* whose busy hand-offs have all been delivered is not shown as busy.
C35_BusyCleared ==
  /\ [](\A s \in Sessions :
          (SweepsOf(s) = {} /\ ~BusyPending(s) /\ ui.st # "destroyed")
            => ~sweepBtn[s])
  /\ [][\A s \in Sessions : \A i \in Slots :
          (IsSweep(s, i) /\ threads'[s][i].kind = "none" /\ ui'.st # "destroyed")
            => (queue' # <<>> /\ queue'[Len(queue')] = BusyEv(s, FALSE)
                /\ Len(queue') = Len(queue) + 1)]_vars

\* The one worker of session 1 has ended, its busy-on has been delivered
\* and its busy-off is the pending hand-off.
C35_Witness ==
  /\ SweepsOf(1) = {} /\ sweepBtn[1]
  /\ queue = <<BusyEv(1, FALSE)>>

\* ------------------------------------------------ peak hold never falls
\* C36: a step that leaves a peak of the same length held lowers none of
\* the held amplitudes (a reset, a disconnect, a network reset and an update
\* of another length start the peak hold anew), and after every update each
\* held amplitude is at least the amplitude of the trace applied at that
\* point.
C36_PeakNeverFalls ==
  [][\A s \in Sessions :
       /\ (/\ max_vals[s] # <<>> /\ max_vals'[s] # <<>>
           /\ Len(max_vals'[s][1]) = Len(max_vals[s][1]))
            => \A j \in 1..Len(max_vals[s][1]) :
                 max_vals'[s][1][j] >= max_vals[s][1][j]
       /\ Updated(s) =>
            /\ max_vals'[s] # <<>>
            /\ Len(max_vals'[s][1]) = Len(fnIn'.vals)
            /\ \A j \in 1..Len(fnIn'.vals) : max_vals'[s][1][j] >= fnIn'.vals[j]]_vars

\* A trace that is above the held peak at one point and below it at
\* another has been applied: the first point rose, the second stayed.
C36_Witness ==
  \E s \in Sessions :
    /\ fnIn.s = s /\ fnOut.vals # <<>> /\ max_vals[s] # <<>>
    /\ Len(fnOut.vals[1]) = Len(fnIn.vals) /\ Len(fnIn.vals) >= 2
    /\ fnIn.vals[1] > fnOut.vals[1][1] /\ fnIn.vals[2] < fnOut.vals[1][2]
    /\ max_vals[s][1][1] = fnIn.vals[1] /\ max_vals[s][1][2] = fnOut.vals[1][2]

\* ----------------------------------- connect as a run of operations
\* x: [s, ip, inst, rm, fail, reply, continuous]: ip is whether an address
\* was typed, inst and rm what the program holds, fail the operation that
\* raises, reply the text the instrument sends to *IDN?.
CallOp(c) == [op |-> "call", cmd |-> c, arg |-> 0]

\* The operations of the try block of connect1/connect2 in program order;
\* _get_rm makes a resource manager only when none is held.
ConnectSteps(x) ==
  (IF x.rm THEN <<>> ELSE <<CallOp("ResourceManager")>>)
    \o << CallOp("open_resource"), CallOp("set_timeout"),
          WriteOp("*IDN?", 0), ReadOp("*IDN?") >>

\* connect1/connect2: the outcome [ops, inst, rm, connected, idn, error,
\* continuous, cleared]; connected is "on", "off" or "same" (indicator not
\* touched), cleared is whether the peak hold was set to None.
Connect(x) ==
  IF ~x.ip
  THEN [done |-> TRUE, ops |-> <<>>, inst |-> x.inst, rm |-> x.rm,
        connected |-> "same", idn |-> <<>>, error |-> "invalid_address",
        continuous |-> x.continuous, cleared |-> FALSE]
  ELSE IF x.inst # "none"
  THEN [done |-> TRUE, ops |-> <<CallOp("close")>>, inst |-> "none", rm |-> x.rm,
        connected |-> "off", idn |-> <<>>, error |-> "",
        continuous |-> FALSE, cleared |-> TRUE]
  ELSE IF Raises(ConnectSteps(x), x.fail)
  THEN [done |-> TRUE, ops |-> Prefix(ConnectSteps(x), x.fail) \o <<x.fail>>,
        inst |-> "none",
        rm |-> x.rm \/ x.fail # CallOp("ResourceManager"),
        connected |-> "off", idn |-> <<>>, error |-> "connect_failed",
        continuous |-> x.continuous, cleared |-> FALSE]
  ELSE [done |-> TRUE, ops |-> ConnectSteps(x), inst |-> "open", rm |-> TRUE,
        connected |-> "on", idn |-> Strip(x.reply), error |-> "",
        continuous |-> x.continuous, cleared |-> FALSE]

ConnectFailures ==
  { NoFail, CallOp("ResourceManager"), CallOp("open_resource"), CallOp("set_timeout"),
    WriteOp("*IDN?", 0), ReadOp("*IDN?"), CallOp("close") }
ConnectReplies == { <<"S", "A">>, <<" ", "S", "A", " ">>, <<>> }
ConnectInputs ==
  [s : Sessions, ip : BOOLEAN, inst : {"none", "open"}, rm : BOOLEAN,
   fail : ConnectFailures, reply : ConnectReplies, continuous : BOOLEAN]

InitConnect ==
  /\ Constructed
  /\ fnIn \in ConnectInputs
  /\ fnOut = [done |-> FALSE, ops |-> <<>>, inst |-> fnIn.inst, rm |-> fnIn.rm,
              connected |-> "same", idn |-> <<>>, error |-> "",
              continuous |-> fnIn.continuous, cleared |-> FALSE]

\* The connect button is pressed and the handler returns.
RunConnect ==
  /\ ~fnOut.done
  /\ fnOut' = Connect(fnIn)
  /\ UNCHANGED <<rm, inst, timeout, connected, continuous, contBtn, sweepBtn,
                 max_vals, max_freqs, threads, queue, sa, ui, fnIn>>

SpecConnect == InitConnect /\ [][RunConnect]_vars

\* The transport was opened and an operation after that raised.
FailedAfterOpen ==
  /\ fnOut.done /\ fnOut.error = "connect_failed"
  /\ \E j \in DOMAIN fnOut.ops :
       fnOut.ops[j] = CallOp("open_resource") /\ j < Len(fnOut.ops)

\* C37: a connect that fails after open_resource returned closes the opened
\* transport, and leaves the session without a handle and its indicator at
\* "Not Connected".
C37_FailedConnectCloses ==
  FailedAfterOpen =>
    /\ fnOut.ops[Len(fnOut.ops)] = CallOp("close")
    /\ fnOut.inst = "none"
    /\ fnOut.connected = "off"

\* ------------------------------- sweep and toggle requests as functions
\* x: [s, kind, inst, continuous, contBtn, held]: what the program holds
\* when the button of session s is pressed.  The outcome names the error
\* box shown ("" for none), the worker thread started ("none" for none) and
\* the instrument commands the handler itself issued.
Outcome(x, report, worker, flag, btn) ==
  [done |-> TRUE, report |-> report, worker |-> worker, ops |-> <<>>,
   continuous |-> flag, contBtn |-> btn, held |-> x.held]

\* sweep1/sweep2
SweepCall(x) ==
  IF x.inst = "none" THEN Outcome(x, "not connected", "none", x.continuous, x.contBtn)
  ELSE Outcome(x, "", "sweep", x.continuous, x.contBtn)

\* A toggle without the test for a connection.
ToggleContinuousCallUnguarded(x) ==
  Outcome(x, "", IF ~x.continuous /\ x.inst # "none" THEN "loop" ELSE "none",
          ~x.continuous, ~x.continuous)

\* toggle_continuous1/2 with _start_continuous1/2
ToggleContinuousCall(x) ==
  IF x.inst = "none" THEN Outcome(x, "not connected", "none", x.continuous, x.contBtn)
  ELSE Outcome(x, "", IF ~x.continuous /\ x.inst # "none" THEN "loop" ELSE "none",
               ~x.continuous, ~x.continuous)

RequestInputs ==
  [s : Sessions, kind : {"sweep", "toggle"}, inst : {"none", "open"},
   continuous : BOOLEAN, contBtn : BOOLEAN,
   held : {<<>>, << <<0>> >>, << <<1, 0>> >>}]

InitRequest ==
  /\ Constructed
  /\ fnIn \in RequestInputs
  /\ fnOut = [done |-> FALSE, report |-> "", worker |-> "none", ops |-> <<>>,
              continuous |-> fnIn.continuous, contBtn |-> fnIn.contBtn,
              held |-> fnIn.held]

\* The single-sweep button is pressed.
RunSweepCall ==
  /\ ~fnOut.done /\ fnIn.kind = "sweep"
  /\ fnOut' = SweepCall(fnIn)
  /\ UNCHANGED <<rm, inst, timeout, connected, continuous, contBtn, sweepBtn,
                 max_vals, max_freqs, threads, queue, sa, ui, fnIn>>

\* The continuous button is pressed.
RunToggleCall ==
  /\ ~fnOut.done /\ fnIn.kind = "toggle"
  /\ fnOut' = ToggleContinuousCall(fnIn)
  /\ UNCHANGED <<rm, inst, timeout, connected, continuous, contBtn, sweepBtn,
                 max_vals, max_freqs, threads, queue, sa, ui, fnIn>>

SpecRequest == InitRequest /\ [][RunSweepCall \/ RunToggleCall]_vars

\* C38: a single-sweep or toggle request on a session without a handle
\* shows the "not connected" error, starts no worker, issues no instrument
\* command and leaves the running flag, the continuous indicator and the
\* peak hold as they were.
C38_NotConnected ==
  (fnOut.done /\ fnIn.inst = "none") =>
    /\ fnOut.report = "not connected"
    /\ fnOut.worker = "none"
    /\ fnOut.ops = <<>>
    /\ fnOut.continuous = fnIn.continuous
    /\ fnOut.contBtn = fnIn.contBtn
    /\ fnOut.held = fnIn.held

\* A toggle request on a session without a handle whose peak hold is
\* populated and whose indicator is off has been refused.
C38_Witness ==
  /\ fnOut.done /\ fnIn.inst = "none" /\ fnIn.kind = "toggle"
  /\ ~fnIn.continuous /\ ~fnIn.contBtn /\ fnIn.held # <<>>
  /\ fnOut.report = "not connected" /\ ~fnOut.continuous
====
